---- MODULE Spec2Model ----
(***************************************************************************)
(* Trap delivery core of the RISC-V hart model (riscvExceptions.c): trap   *)
(* engine, return engine, Debug-Mode controller, fetch gate, basic         *)
(* interrupt arbiter and CLIC.                                             *)
(*                                                                         *)
(* The hart structure (riscvP) is the record `riscv`; every C function is  *)
(* an operator from a hart record to the hart record it leaves behind, so  *)
(* that nested calls compose as they do in the source.  While an operation *)
(* runs, the record carries one more field, `ev`, the observation of that  *)
(* operation (which handler ran, whether it re-arbitrated, the trap it     *)
(* delivered); an action stores the two parts in `riscv` and `ev`.         *)
(***************************************************************************)
EXTENDS Integers, FiniteSets, Sequences, TLC

VARIABLES
    riscv,  \* the hart: privilege mode, CSRs, CLIC state, net latches, PC
    ev      \* observation of the last operation (history, not program state)

vars == <<riscv, ev>>

----------------------------------------------------------------------------
(* Bounds of the model *)

\* number of interrupt lines modelled (the first NumInts entries of IntSeq)
NumInts == 2

----------------------------------------------------------------------------
(* Enumerations of the program *)

RISCV_MODE_USER == 0
RISCV_MODE_SUPERVISOR == 1
RISCV_MODE_HYPERVISOR == 2
RISCV_MODE_MACHINE == 3

\* "no interrupt" value of pendEnab.id and clic.sel.id
RV_NO_INT == -1

\* the is-interrupt tag of a riscvException value (exception code is 12 bits)
riscv_E_Interrupt == 4096

\* synchronous exception codes (rows of the exceptions[] table)
riscv_E_InstructionAccessFault == 1
riscv_E_IllegalInstruction == 2
riscv_E_Breakpoint == 3
riscv_E_LoadAccessFault == 5
riscv_E_StoreAMOAccessFault == 7
riscv_E_EnvironmentCallFromUMode == 8
riscv_E_EnvironmentCallFromSMode == 9
riscv_E_EnvironmentCallFromHMode == 10
riscv_E_EnvironmentCallFromMMode == 11

\* interrupt numbers (exceptionToInt of the interrupt rows of exceptions[])
INT_USWInterrupt == 0
INT_SSWInterrupt == 1
INT_MSWInterrupt == 3
INT_UTimerInterrupt == 4
INT_STimerInterrupt == 5
INT_MTimerInterrupt == 7
INT_UExternalInterrupt == 8
INT_SExternalInterrupt == 9
INT_MExternalInterrupt == 11
INT_Local == 16

\* riscvICMode: encodings of xtvec.MODE
riscv_int_Direct == 0
riscv_int_Vectored == 1
riscv_int_CLIC == 3

\* privileged-architecture versions, in release order
RVPV_20190405 == 1

RVPV_1_12 == 2

\* riscvDisableReason masks used to restart the hart
RVD_RESTART_WFI == {"WFI"}

RVD_RESTART_NMI == {"WFI"}

RVD_RESTART_RESET == {"WFI", "RESET"}

Modes == {RISCV_MODE_USER, RISCV_MODE_SUPERVISOR, RISCV_MODE_MACHINE}

\* the interrupt lines of the model, in the order the bound admits them
IntSeq == <<INT_MTimerInterrupt, INT_SExternalInterrupt, INT_Local>>
IntIds == {IntSeq[k] : k \in 1..NumInts}

----------------------------------------------------------------------------
(* Accessors the source uses from other files of the model *)

getCurrentMode(h) == h.mode

inDebugMode(h) == h.DM

isInterrupt(exception) == exception >= riscv_E_Interrupt

getExceptionCode(exception) == exception % riscv_E_Interrupt

intToException(id) == riscv_E_Interrupt + id

riscvHasMode(h, m) == m \in h.configInfo.modes

\* lowest implemented privilege mode
riscvGetMinMode(h) ==
    IF RISCV_MODE_USER \in h.configInfo.modes THEN RISCV_MODE_USER
    ELSE IF RISCV_MODE_SUPERVISOR \in h.configInfo.modes THEN RISCV_MODE_SUPERVISOR
    ELSE RISCV_MODE_MACHINE

riscvSetMode(h, m) == [h EXCEPT !.mode = m]

\* xtvec.MODE selects CLIC mode for mode m
useCLIC(h, m) == h.tvec[m].MODE = riscv_int_CLIC

useCLICM(h) == useCLIC(h, RISCV_MODE_MACHINE)

CLICPresent(h) == h.configInfo.CLICPresent

basicICPresent(h) == h.configInfo.basicICPresent

\* mcountinhibit.IR
riscvInhibitInstret(h) == h.mcountinhibitIR

\* writable bits of xepc: bit 1 only with compressed instructions
epcMasked(h, epc) == IF h.configInfo.archC THEN epc - (epc % 2) ELSE epc - (epc % 4)

\* vmirtDoSynchronousInterrupt: ask the simulator to run the fetch gate
vmirtDoSynchronousInterrupt(h) == [h EXCEPT !.ev.sched = TRUE]

\* vmirtSetPCException / vmirtSetPC
vmirtSetPC(h, pc) == [h EXCEPT !.PC = pc]

----------------------------------------------------------------------------
(* UTILITIES *)

\* sequencing: the value a statement leaves is handed to the statements after it
Bind(v, F(_)) == F(v)

getPC(h) == h.PC

setPCxRET(h, newPC) ==
    vmirtSetPC(h, IF ~h.configInfo.archC THEN newPC - (newPC % 4) ELSE newPC)

clearEA(h) == [h EXCEPT !.exclusiveTag = FALSE]

clearEAxRET(h) == IF ~h.configInfo.xret_preserves_lr THEN clearEA(h) ELSE h

haltProcessor(h, reason) == [h EXCEPT !.disable = @ \cup {reason}]

\* ev.restarted records that a halted hart was set running again
restartProcessor(h, reasons) ==
    [h EXCEPT !.disable = @ \ reasons,
              !.ev.restarted = @ \/ (h.disable \cap reasons # {})]

getEPC(h) == h.PC

----------------------------------------------------------------------------
(* TAKING EXCEPTIONS: target mode *)

\* getModeX without the final raise to the current mode
getModeX_NoRaise(h, mMask, sMask, ecode) ==
    IF ecode \notin mMask THEN RISCV_MODE_MACHINE
    ELSE IF ecode \notin sMask THEN RISCV_MODE_SUPERVISOR
    ELSE RISCV_MODE_USER

\* mMask/sMask are delegation registers, as sets of delegated codes
getModeX(h, mMask, sMask, ecode) ==
    LET modeY == getCurrentMode(h)
        modeX == IF ecode \notin mMask THEN RISCV_MODE_MACHINE
                 ELSE IF ecode \notin sMask THEN RISCV_MODE_SUPERVISOR
                 ELSE RISCV_MODE_USER
    IN  IF modeX > modeY THEN modeX ELSE modeY

getInterruptModeX(h, ecode) == getModeX(h, h.mideleg, h.sideleg, ecode)

getExceptionModeX(h, ecode) == getModeX(h, h.medeleg, h.sedeleg, ecode)

getIMode(customMode, tvecMode) == IF tvecMode # 0 THEN tvecMode ELSE customMode

----------------------------------------------------------------------------
(* BASIC INTERRUPT ARBITER *)

\* getIE returning the raw enable bit whatever the current mode
getIE_Raw(h, IE, modeIE, useCLICX) == IF useCLICX THEN FALSE ELSE IE

getIE(h, IE, modeIE, useCLICX) ==
    LET mode == getCurrentMode(h)
    IN  IF useCLICX THEN FALSE
        ELSE IF mode < modeIE THEN TRUE
        ELSE IF mode > modeIE THEN FALSE
        ELSE IE

getPendingBasic(h) == h.mie \cap h.mip

getPendingCLIC(h) == h.clic.sel.id # RV_NO_INT

getPending(h) == getPendingBasic(h) # {} \/ getPendingCLIC(h)

\* getIntPri ranking the interrupts by their numbers
getIntPri_ByNumber(intNum) == intNum

\* fixed priority of the standard interrupts; local interrupts are lowest
getIntPri(intNum) ==
    CASE intNum = 4  -> 1
      [] intNum = 0  -> 2
      [] intNum = 8  -> 3
      [] intNum = 5  -> 4
      [] intNum = 1  -> 5
      [] intNum = 9  -> 6
      [] intNum = 7  -> 7
      [] intNum = 3  -> 8
      [] intNum = 11 -> 9
      [] OTHER       -> 0

MinOf(S) == CHOOSE x \in S : \A y \in S : x <= y

\* the do-while scan of refreshPendingAndEnabledBasic, lowest bit first
RECURSIVE selectBasic(_, _, _)
selectBasic(h, pendingEnabled, selected) ==
    IF pendingEnabled = {} THEN selected
    ELSE LET id  == MinOf(pendingEnabled)
             try == [id |-> id, priv |-> getInterruptModeX(h, id),
                     level |-> 0, isCLIC |-> FALSE]
             nxt == IF selected.id = RV_NO_INT THEN try
                    ELSE IF selected.priv < try.priv THEN try
                    ELSE IF selected.priv > try.priv THEN selected
                    ELSE IF getIntPri(selected.id) <= getIntPri(try.id) THEN try
                    ELSE selected
         IN  selectBasic(h, pendingEnabled \ {id}, nxt)

\* pending-and-enabled basic interrupts after the per-mode enable masks
maskedPendingBasic(h) ==
    LET MIE == getIE(h, h.mstatus.IE[RISCV_MODE_MACHINE] = 1,
                     RISCV_MODE_MACHINE, useCLIC(h, RISCV_MODE_MACHINE))
        SIE == getIE(h, h.mstatus.IE[RISCV_MODE_SUPERVISOR] = 1,
                     RISCV_MODE_SUPERVISOR, useCLIC(h, RISCV_MODE_SUPERVISOR))
        UIE == getIE(h, h.mstatus.IE[RISCV_MODE_USER] = 1,
                     RISCV_MODE_USER, useCLIC(h, RISCV_MODE_USER))
        mideleg == h.mideleg
        sideleg == h.sideleg \cap mideleg
        mMask   == {i \in getPendingBasic(h) : i \notin mideleg}
        sMask   == {i \in getPendingBasic(h) : i \in mideleg /\ i \notin sideleg}
        uMask   == {i \in getPendingBasic(h) : i \in sideleg}
    IN  ((getPendingBasic(h) \ (IF ~MIE THEN mMask ELSE {}))
            \ (IF ~SIE THEN sMask ELSE {})) \ (IF ~UIE THEN uMask ELSE {})

refreshPendingAndEnabledBasic(h) ==
    [h EXCEPT !.pendEnab = selectBasic(h, maskedPendingBasic(h), h.pendEnab)]

----------------------------------------------------------------------------
(* CLIC: per-interrupt state and arbitration *)

Pow2(n) == 2^n

\* clicintattr byte: shv bit 0, trig bits 2:1, WPRI bits 5:3, mode bits 7:6
attr_shv(b) == b % 2
attr_trig(b) == (b \div 2) % 4
attr_mode(b) == (b \div 64) % 4
attrBits(shv, trig, mode) == shv + 2 * trig + 64 * mode

\* cliccfg byte: nvbits bit 0, nlbits bits 4:1, nmbits bits 6:5, WPRI bit 7
cfg_nlbits(b) == (b \div 2) % 16
cfg_nmbits(b) == (b \div 32) % 4

getCLICIntCtl1Bits(h) == Pow2(8 - h.configInfo.CLICINTCTLBITS) - 1

getCLICInterruptField(h, intIndex, type) == h.clic.intState[intIndex][type]

setCLICInterruptField(h, intIndex, type, newValue) ==
    [h EXCEPT !.clic.intState[intIndex][type] = newValue]

getCLICInterruptPending(h, intIndex) ==
    getCLICInterruptField(h, intIndex, "clicintip") # 0

getCLICInterruptEnable(h, intIndex) ==
    getCLICInterruptField(h, intIndex, "clicintie") # 0

getCLICInterruptAttr(h, intIndex) ==
    getCLICInterruptField(h, intIndex, "clicintattr")

getCLICInterruptMode(h, intIndex) ==
    LET attrMode == attr_mode(getCLICInterruptAttr(h, intIndex))
        nmbits   == h.clic.cliccfg.nmbits
    IN  IF nmbits = 0 THEN RISCV_MODE_MACHINE
        ELSE IF h.configInfo.CLICCFGMBITS = 1
             THEN (IF (attrMode \div 2) % 2 = 1 THEN RISCV_MODE_MACHINE
                   ELSE RISCV_MODE_USER)
        ELSE IF nmbits = 1 THEN attrMode + (IF attrMode % 2 = 0 THEN 1 ELSE 0)
        ELSE attrMode

\* PRESENT_INT_CLIC without the comparison against the active interrupt level
\* and the threshold
PRESENT_INT_CLIC_AnyLevel(h, X, level, mode) ==
    /\ useCLIC(h, X)
    /\ h.mstatus.IE[X] = 1

PRESENT_INT_CLIC(h, X, level, mode) ==
    /\ useCLIC(h, X)
    /\ h.mstatus.IE[X] = 1
    /\ \/ mode < X
       \/ /\ level > h.mintstatus[X]
          /\ level > h.intthresh[X]

\* selectCLIC keeping the first of the interrupts that tie on rank
RECURSIVE selectCLIC_FirstOnTie(_, _, _, _)
selectCLIC_FirstOnTie(h, pendingEnabled, maxRank, id) ==
    IF pendingEnabled = {} THEN id
    ELSE LET intIndex == MinOf(pendingEnabled)
             rank     == getCLICInterruptMode(h, intIndex) * 256
                         + getCLICInterruptField(h, intIndex, "clicintctl")
         IN  IF maxRank < rank
             THEN selectCLIC_FirstOnTie(h, pendingEnabled \ {intIndex}, rank,
                                        intIndex)
             ELSE selectCLIC_FirstOnTie(h, pendingEnabled \ {intIndex},
                                        maxRank, id)

\* the scan of ipe[]: the largest rank wins, the highest index on a tie
RECURSIVE selectCLIC(_, _, _, _)
selectCLIC(h, pendingEnabled, maxRank, id) ==
    IF pendingEnabled = {} THEN id
    ELSE LET intIndex == MinOf(pendingEnabled)
             rank     == getCLICInterruptMode(h, intIndex) * 256
                         + getCLICInterruptField(h, intIndex, "clicintctl")
         IN  IF maxRank <= rank
             THEN selectCLIC(h, pendingEnabled \ {intIndex}, rank, intIndex)
             ELSE selectCLIC(h, pendingEnabled \ {intIndex}, maxRank, id)

\* the presented interrupt id: fields of clic.sel, and whether it is enabled
presentCLIC(h, id) ==
    LET clicintctl == getCLICInterruptField(h, id, "clicintctl")
        low        == Pow2(8 - h.clic.cliccfg.nlbits)
        priv       == getCLICInterruptMode(h, id)
        level      == (clicintctl - (clicintctl % low)) + (low - 1)
        mode       == getCurrentMode(h)
        enable     == IF h.pendEnab.priv > priv THEN FALSE
                      ELSE IF mode > priv THEN FALSE
                      ELSE PRESENT_INT_CLIC(h, priv, level, mode)
    IN  [h EXCEPT
           !.clic.sel = [priv |-> priv, id |-> id, level |-> level,
                         shv |-> attr_shv(getCLICInterruptAttr(h, id)) = 1],
           !.pendEnab = IF enable
                        THEN [id |-> id, priv |-> priv, level |-> level,
                              isCLIC |-> TRUE]
                        ELSE @]

refreshPendingAndEnabledCLIC(h) ==
    Bind(selectCLIC(h, h.clic.ipe, 0, RV_NO_INT), LAMBDA id :
        IF id = RV_NO_INT
        THEN [h EXCEPT !.clic.sel = [priv |-> 0, id |-> RV_NO_INT,
                                     level |-> 0, shv |-> FALSE]]
        ELSE presentCLIC(h, id))

----------------------------------------------------------------------------
(* Re-arbitration *)

refreshPendingAndEnabled(h) ==
    Bind([h EXCEPT !.pendEnab = [id |-> RV_NO_INT, priv |-> 0,
                                 level |-> 0, isCLIC |-> FALSE]], LAMBDA h0 :
    Bind(IF basicICPresent(h0) THEN refreshPendingAndEnabledBasic(h0) ELSE h0,
         LAMBDA h1 :
    IF CLICPresent(h1) THEN refreshPendingAndEnabledCLIC(h1) ELSE h1))

getPendingAndEnabled(h) ==
    /\ h.pendEnab.id # RV_NO_INT
    /\ ~inDebugMode(h)
    /\ ~h.netValue.deferint

handlePendingAndEnabled(h) ==
    IF getPendingAndEnabled(h) THEN vmirtDoSynchronousInterrupt(h) ELSE h

\* riscvTestInterrupt restarting a waiting hart only for an interrupt that
\* can be taken
riscvTestInterrupt_EnabledOnly(h) ==
    Bind([refreshPendingAndEnabled(h) EXCEPT !.ev.tested = TRUE], LAMBDA h1 :
    Bind(IF getPendingAndEnabled(h1)
         THEN restartProcessor(h1, RVD_RESTART_WFI) ELSE h1,
         LAMBDA h2 :
    handlePendingAndEnabled(h2)))

riscvTestInterrupt(h) ==
    Bind([refreshPendingAndEnabled(h) EXCEPT !.ev.tested = TRUE], LAMBDA h1 :
    Bind(IF getPending(h1) THEN restartProcessor(h1, RVD_RESTART_WFI) ELSE h1,
         LAMBDA h2 :
    handlePendingAndEnabled(h2)))

----------------------------------------------------------------------------
(* CLIC: register writes *)

\* updateCLICInterruptField re-arbitrating whether or not the field changed
updateCLICInterruptField_Always(h, intIndex, type, newValue) ==
    riscvTestInterrupt(setCLICInterruptField(h, intIndex, type, newValue))

updateCLICInterruptField(h, intIndex, type, newValue) ==
    IF getCLICInterruptField(h, intIndex, type) # newValue
    THEN riscvTestInterrupt(setCLICInterruptField(h, intIndex, type, newValue))
    ELSE h

updateCLICPendingEnable(h, intIndex, newIPE) ==
    riscvTestInterrupt(
        [h EXCEPT !.clic.ipe = IF newIPE THEN @ \cup {intIndex}
                               ELSE @ \ {intIndex}])

writeCLICInterruptPending(h, intIndex, newValue) ==
    LET oldIE  == h.clic.intState[intIndex]["clicintie"] # 0
        newIP  == newValue % 2
        oldIPE == oldIE /\ h.clic.intState[intIndex]["clicintip"] # 0
        h1     == [h EXCEPT !.clic.intState[intIndex]["clicintip"] = newIP]
        newIPE == oldIE /\ newIP # 0
    IN  IF oldIPE # newIPE THEN updateCLICPendingEnable(h1, intIndex, newIPE)
        ELSE h1

writeCLICInterruptEnable(h, intIndex, newValue) ==
    LET oldIP  == h.clic.intState[intIndex]["clicintip"] # 0
        newIE  == newValue % 2
        oldIPE == oldIP /\ h.clic.intState[intIndex]["clicintie"] # 0
        h1     == [h EXCEPT !.clic.intState[intIndex]["clicintie"] = newIE]
        newIPE == oldIP /\ newIE # 0
    IN  IF oldIPE # newIPE THEN updateCLICPendingEnable(h1, intIndex, newIPE)
        ELSE h1

\* the clamp of writeCLICInterruptAttr: the mode field that is stored
\* the clamp without its first test: a mode above the page's is stored
clampCLICAttrMode_AnyPage(h, intMode, pageMode) ==
    IF \/ h.configInfo.CLICCFGMBITS = 0
       \/ intMode = RISCV_MODE_HYPERVISOR
       \/ (h.configInfo.CLICCFGMBITS < 2 /\ intMode = RISCV_MODE_SUPERVISOR)
       \/ (intMode = RISCV_MODE_USER /\ ~h.configInfo.archN)
    THEN pageMode
    ELSE intMode

clampCLICAttrMode(h, intMode, pageMode) ==
    IF \/ intMode > pageMode
       \/ h.configInfo.CLICCFGMBITS = 0
       \/ intMode = RISCV_MODE_HYPERVISOR
       \/ (h.configInfo.CLICCFGMBITS < 2 /\ intMode = RISCV_MODE_SUPERVISOR)
       \/ (intMode = RISCV_MODE_USER /\ ~h.configInfo.archN)
    THEN pageMode
    ELSE intMode

writeCLICInterruptAttr(h, intIndex, newValue, pageMode) ==
    LET shv     == IF h.clic.cliccfg.nvbits = 0 THEN 0 ELSE attr_shv(newValue)
        intMode == clampCLICAttrMode(h, attr_mode(newValue), pageMode)
    IN  updateCLICInterruptField(
            [h EXCEPT !.ev.attrPage[intIndex] = pageMode,
                      !.ev.attrAbove = attr_mode(newValue) > pageMode],
            intIndex, "clicintattr",
            attrBits(shv, attr_trig(newValue), intMode))

\* writeCLICInterruptCtl storing the byte as written
writeCLICInterruptCtl_AsWritten(h, intIndex, newValue) ==
    updateCLICInterruptField(h, intIndex, "clicintctl", newValue)

\* newValue |= getCLICIntCtl1Bits(hart), on a byte
writeCLICInterruptCtl(h, intIndex, newValue) ==
    LET ones == getCLICIntCtl1Bits(h)
    IN  updateCLICInterruptField(h, intIndex, "clicintctl",
                                 (newValue - (newValue % (ones + 1))) + ones)

\* accessCLICInterrupt without the comparison with the page's mode
accessCLICInterrupt_AnyPage(h, intIndex, pageMode) ==
    intIndex \in h.configInfo.implemented

\* is interrupt intIndex visible through the page of mode pageMode?
accessCLICInterrupt(h, intIndex, pageMode) ==
    /\ intIndex \in h.configInfo.implemented
    /\ getCLICInterruptMode(h, intIndex) <= pageMode

writeCLICInterrupt(h, pageMode, intIndex, type, newValue) ==
    IF accessCLICInterrupt(h, intIndex, pageMode)
    THEN CASE type = "clicintip"   -> writeCLICInterruptPending(h, intIndex, newValue)
           [] type = "clicintie"   -> writeCLICInterruptEnable(h, intIndex, newValue)
           [] type = "clicintattr" -> writeCLICInterruptAttr(h, intIndex, newValue, pageMode)
           [] type = "clicintctl"  -> writeCLICInterruptCtl(h, intIndex, newValue)
    ELSE h

readCLICInterrupt(h, pageMode, intIndex) ==
    IF accessCLICInterrupt(h, intIndex, pageMode)
    THEN h.clic.intState[intIndex]
    ELSE [clicintip |-> 0, clicintie |-> 0, clicintattr |-> 0, clicintctl |-> 0]

refreshCLICIPE(h) ==
    [h EXCEPT !.clic.ipe = {i \in DOMAIN h.clic.intState :
                               getCLICInterruptPending(h, i)
                               /\ getCLICInterruptEnable(h, i)}]

\* riscvAcknowledgeCLICInt treating every interrupt as level triggered
riscvAcknowledgeCLICInt_NoClear(h, intIndex) == refreshPendingAndEnabled(h)

riscvAcknowledgeCLICInt(h, intIndex) ==
    LET isEdge == attr_trig(getCLICInterruptAttr(h, intIndex)) % 2 = 1
    IN  IF isEdge THEN writeCLICInterruptPending(h, intIndex, 0)
        ELSE refreshPendingAndEnabled(h)

updateCLICInput(h, intIndex, newValue) ==
    LET trig      == attr_trig(getCLICInterruptAttr(h, intIndex))
        isEdge    == trig % 2 = 1
        activeLow == (trig \div 2) % 2 = 1
        value     == IF activeLow THEN 1 - newValue ELSE newValue
    IN  IF ~isEdge \/ value # 0
        THEN writeCLICInterruptPending(h, intIndex, value)
        ELSE h

\* single hart: the only leaf of the cluster is the hart itself
refreshCCLICInterruptAll(h) == riscvTestInterrupt(h)

\* cliccfgW storing nmbits and nlbits as written
cliccfgW_Unclamped(h, newValue) ==
    LET new == [nvbits |-> h.configInfo.CLICSELHVEC,
                nlbits |-> cfg_nlbits(newValue),
                nmbits |-> cfg_nmbits(newValue)]
    IN  IF h.clic.cliccfg # new
        THEN refreshCCLICInterruptAll([h EXCEPT !.clic.cliccfg = new])
        ELSE h

cliccfgW(h, newValue) ==
    LET nm  == cfg_nmbits(newValue)
        nl  == cfg_nlbits(newValue)
        new == [nvbits |-> h.configInfo.CLICSELHVEC,
                nlbits |-> IF nl > 8 THEN 8 ELSE nl,
                nmbits |-> IF nm > h.configInfo.CLICCFGMBITS
                           THEN h.configInfo.CLICCFGMBITS ELSE nm]
    IN  IF h.clic.cliccfg # new
        THEN refreshCCLICInterruptAll([h EXCEPT !.clic.cliccfg = new])
        ELSE h

resetCLIC(h) == IF CLICPresent(h) THEN cliccfgW(h, 0) ELSE h

----------------------------------------------------------------------------
(* DEBUG MODE: entry *)

updateDMStall(h, DMStall) ==
    IF h.configInfo.debug_mode = "HALT"
    THEN IF DMStall
         THEN haltProcessor([h EXCEPT !.DMStall = TRUE], "DEBUG")
         ELSE restartProcessor([h EXCEPT !.DMStall = FALSE], {"DEBUG"})
    ELSE h

setDM(h, DM) == [h EXCEPT !.DM = DM]

\* enterDM recording the privilege mode after the switch to Machine mode
enterDM_PrvAfterSwitch(h, cause) ==
    Bind(IF ~inDebugMode(h)
         THEN [riscvSetMode(setDM(h, TRUE), RISCV_MODE_MACHINE) EXCEPT
                  !.dcsr.prv = RISCV_MODE_MACHINE,
                  !.dcsr.cause = cause,
                  !.dpc = getEPC(h),
                  !.ev.enteredDM = TRUE]
         ELSE [h EXCEPT !.ev.enteredDM = TRUE], LAMBDA h1 :
    IF h.configInfo.debug_mode = "INTERRUPT" THEN h1
    ELSE IF h.configInfo.debug_mode = "VECTOR"
    THEN vmirtSetPC(h1, IF inDebugMode(h) THEN h.configInfo.dexc_address
                        ELSE h.configInfo.debug_address)
    ELSE updateDMStall(h1, TRUE))

enterDM(h, cause) ==
    Bind(IF ~inDebugMode(h)
         THEN riscvSetMode(
                  [setDM(h, TRUE) EXCEPT !.dcsr.prv = getCurrentMode(h),
                                         !.dcsr.cause = cause,
                                         !.dpc = getEPC(h),
                                         !.ev.enteredDM = TRUE],
                  RISCV_MODE_MACHINE)
         ELSE [h EXCEPT !.ev.enteredDM = TRUE], LAMBDA h1 :
    IF h.configInfo.debug_mode = "INTERRUPT" THEN h1
    ELSE IF h.configInfo.debug_mode = "VECTOR"
    THEN vmirtSetPC(h1, IF inDebugMode(h) THEN h.configInfo.dexc_address
                        ELSE h.configInfo.debug_address)
    ELSE updateDMStall(h1, TRUE))

----------------------------------------------------------------------------
(* TAKING EXCEPTIONS *)

ZeroCause == [Interrupt |-> 0, ExceptionCode |-> 0, pil |-> 0, inhv |-> 0]

\* TARGET_MODE_X taking every synchronous exception at interrupt level 0
TARGET_MODE_X_ZeroLevel(h, X, isInt, ecode, EPC, tval, level) ==
    LET IE == h.mstatus.IE[X]
        IL == h.mintstatus[X]
        c0 == IF ~useCLICM(h) THEN ZeroCause ELSE h.cause[X]
    IN  [h EXCEPT !.mstatus.PIE[X] = IE,
                  !.mstatus.IE[X]  = 0,
                  !.cause[X] = [c0 EXCEPT !.ExceptionCode = ecode,
                                          !.Interrupt = IF isInt THEN 1 ELSE 0,
                                          !.pil = IL],
                  !.epc[X]  = epcMasked(h, EPC),
                  !.tval[X] = tval,
                  !.mintstatus[X] = IF level >= 0 THEN level ELSE 0]

TARGET_MODE_X(h, X, isInt, ecode, EPC, tval, level) ==
    LET IE == h.mstatus.IE[X]
        IL == h.mintstatus[X]
        c0 == IF ~useCLICM(h) THEN ZeroCause ELSE h.cause[X]
    IN  [h EXCEPT !.mstatus.PIE[X] = IE,
                  !.mstatus.IE[X]  = 0,
                  !.cause[X] = [c0 EXCEPT !.ExceptionCode = ecode,
                                          !.Interrupt = IF isInt THEN 1 ELSE 0,
                                          !.pil = IL],
                  !.epc[X]  = epcMasked(h, EPC),
                  !.tval[X] = tval,
                  !.mintstatus[X] = IF level >= 0 THEN level ELSE @]

\* retiredCode classifying ecall and ebreak as retired on every version
retiredCode_AnyVersion(h, exception) ==
    exception \in {riscv_E_Breakpoint,
                   riscv_E_EnvironmentCallFromUMode,
                   riscv_E_EnvironmentCallFromSMode,
                   riscv_E_EnvironmentCallFromHMode,
                   riscv_E_EnvironmentCallFromMMode}

retiredCode(h, exception) ==
    IF exception \in {riscv_E_Breakpoint,
                      riscv_E_EnvironmentCallFromUMode,
                      riscv_E_EnvironmentCallFromSMode,
                      riscv_E_EnvironmentCallFromHMode,
                      riscv_E_EnvironmentCallFromMMode}
    THEN h.configInfo.priv_version < RVPV_1_12
    ELSE FALSE

accessFaultCode(exception) ==
    exception \in {riscv_E_InstructionAccessFault, riscv_E_LoadAccessFault,
                   riscv_E_StoreAMOAccessFault}

isExternalInterrupt(exception) ==
    /\ exception >= intToException(INT_UExternalInterrupt)
    /\ exception <= intToException(INT_MExternalInterrupt)

\* the mstatus.xPP write that follows TARGET_MODE_X (SPP is one bit wide)
writePreviousMode(h, modeX, modeY) ==
    IF modeX = RISCV_MODE_USER THEN h
    ELSE IF modeX = RISCV_MODE_SUPERVISOR
    THEN [h EXCEPT !.mstatus.SPP = modeY % 2]
    ELSE [h EXCEPT !.mstatus.MPP = modeY]

\* vmirtSetPCException(handlerPC) and the trap notifiers that follow it
deliverTrap(h, handlerPC) ==
    [vmirtSetPC(h, handlerPC) EXCEPT !.ev.notified = @ + 1]

\* the target mode riscvTakeException selects
trapModeX(h, isInt, ecode) ==
    IF ~isInt THEN getExceptionModeX(h, ecode)
    ELSE IF h.pendEnab.isCLIC THEN h.pendEnab.priv
    ELSE getInterruptModeX(h, ecode)

RECURSIVE riscvTakeException(_, _, _)
\* takeCLICVectored going on with the delivery after the nested exception
takeCLICVectored_Continue(h, modeX, ecode, intNum) ==
    Bind([riscvAcknowledgeCLICInt(h, ecode) EXCEPT !.cause[modeX].inhv = 1],
         LAMBDA h1 :
    Bind(h1.tvt[modeX] + (h1.configInfo.XLEN \div 8) * intNum, LAMBDA address :
    IF address \in DOMAIN h1.mem
    THEN deliverTrap([h1 EXCEPT !.cause[modeX].inhv = 0],
                     h1.mem[address] - (h1.mem[address] % 2))
    ELSE deliverTrap(riscvTakeException(h1, riscv_E_LoadAccessFault, address),
                     0)))

\* the CLIC hardware-vectored branch: acknowledge, then read the vector
\* table entry of intNum with xcause.inhv set around the read
takeCLICVectored(h, modeX, ecode, intNum) ==
    Bind([riscvAcknowledgeCLICInt(h, ecode) EXCEPT !.cause[modeX].inhv = 1],
         LAMBDA h1 :
    Bind(h1.tvt[modeX] + (h1.configInfo.XLEN \div 8) * intNum, LAMBDA address :
    IF address \in DOMAIN h1.mem
    THEN deliverTrap([h1 EXCEPT !.cause[modeX].inhv = 0],
                     h1.mem[address] - (h1.mem[address] % 2))
    \* the read aborts: riscvRdAbortExcept takes a Load Access Fault, and
    \* readCLICVectorTableEntry then reports a nested exception
    ELSE riscvTakeException(h1, riscv_E_LoadAccessFault, address)))

\* takeExceptionTo entering the CLIC non-vectored handler at the unaligned base
takeExceptionTo_UnalignedCLIC(h, exception, tval, modeX, ecodeMod, level) ==
    LET isInt == isInterrupt(exception)
        ecode == getExceptionCode(exception)
        modeY == getCurrentMode(h)
    IN  Bind([riscvSetMode(
                 writePreviousMode(
                     TARGET_MODE_X(h, modeX, isInt, ecodeMod, getEPC(h),
                                   IF h.configInfo.tval_zero THEN 0 ELSE tval,
                                   level),
                     modeX, modeY),
                 modeX)
              EXCEPT !.exception = exception,
                     !.ev.trap = [taken |-> TRUE, exception |-> exception,
                                  code |-> ecodeMod, modeX |-> modeX,
                                  modeY |-> modeY,
                                  preIE |-> h.mstatus.IE[modeX],
                                  priv |-> h.pendEnab.priv,
                                  level |-> h.pendEnab.level,
                                  isCLIC |-> h.pendEnab.isCLIC,
                                  depth |-> h.ev.trap.depth + 1]],
             LAMBDA h1 :
        Bind(h1.tvec[modeX].BASE * 4, LAMBDA base :
        Bind(getIMode(h1.IMode[modeX], h1.tvec[modeX].MODE), LAMBDA mode :
        IF mode = riscv_int_Direct \/ ~isInt THEN deliverTrap(h1, base)
        ELSE IF mode # riscv_int_CLIC THEN deliverTrap(h1, base + 4 * ecode)
        ELSE IF ~h.clic.sel.shv THEN deliverTrap(h1, base)
        ELSE takeCLICVectored(h1, modeX, ecode, ecodeMod))))

\* the trap once its target mode, reported code and level are known
takeExceptionTo(h, exception, tval, modeX, ecodeMod, level) ==
    LET isInt == isInterrupt(exception)
        ecode == getExceptionCode(exception)
        modeY == getCurrentMode(h)
    IN  Bind([riscvSetMode(
                 writePreviousMode(
                     TARGET_MODE_X(h, modeX, isInt, ecodeMod, getEPC(h),
                                   IF h.configInfo.tval_zero THEN 0 ELSE tval,
                                   level),
                     modeX, modeY),
                 modeX)
              EXCEPT !.exception = exception,
                     !.ev.trap = [taken |-> TRUE, exception |-> exception,
                                  code |-> ecodeMod, modeX |-> modeX,
                                  modeY |-> modeY,
                                  preIE |-> h.mstatus.IE[modeX],
                                  priv |-> h.pendEnab.priv,
                                  level |-> h.pendEnab.level,
                                  isCLIC |-> h.pendEnab.isCLIC,
                                  depth |-> h.ev.trap.depth + 1]],
             LAMBDA h1 :
        Bind(h1.tvec[modeX].BASE * 4, LAMBDA base :
        Bind(getIMode(h1.IMode[modeX], h1.tvec[modeX].MODE), LAMBDA mode :
        IF mode = riscv_int_Direct \/ ~isInt THEN deliverTrap(h1, base)
        ELSE IF mode # riscv_int_CLIC THEN deliverTrap(h1, base + 4 * ecode)
        ELSE IF ~h.clic.sel.shv THEN deliverTrap(h1, base - (base % 64))
        ELSE takeCLICVectored(h1, modeX, ecode, ecodeMod))))

\* riscvTakeException delivering the trap in Debug Mode as well
riscvTakeException_InDebugMode(h, exception, tval) ==
    LET isInt == isInterrupt(exception)
        ecode == getExceptionCode(exception)
        modeY == getCurrentMode(h)
    IN  Bind([h EXCEPT
                !.ev.baseInstructions =
                    IF ~retiredCode(h, exception) /\ ~riscvInhibitInstret(h)
                    THEN @ + 1 ELSE @,
                !.AFErrorOut = IF accessFaultCode(exception) THEN h.AFErrorIn
                               ELSE "None",
                !.exclusiveTag = FALSE], LAMBDA h1 :
        Bind(trapModeX(h1, isInt, ecode), LAMBDA modeX :
        takeExceptionTo(
            h1, exception, tval, modeX,
            IF isExternalInterrupt(exception)
               /\ h1.extInt[ecode - INT_UExternalInterrupt] # 0
            THEN h1.extInt[ecode - INT_UExternalInterrupt]
            ELSE ecode,
            IF isInt THEN h1.pendEnab.level
            ELSE IF modeX # modeY THEN 0
            ELSE -1)))

riscvTakeException(h, exception, tval) ==
    IF inDebugMode(h) THEN enterDM([h EXCEPT !.ev.abortRepeat = TRUE], "NONE")
    ELSE
    LET isInt == isInterrupt(exception)
        ecode == getExceptionCode(exception)
        modeY == getCurrentMode(h)
    IN  Bind([h EXCEPT
                !.ev.baseInstructions =
                    IF ~retiredCode(h, exception) /\ ~riscvInhibitInstret(h)
                    THEN @ + 1 ELSE @,
                !.AFErrorOut = IF accessFaultCode(exception) THEN h.AFErrorIn
                               ELSE "None",
                !.exclusiveTag = FALSE], LAMBDA h1 :
        Bind(trapModeX(h1, isInt, ecode), LAMBDA modeX :
        takeExceptionTo(
            h1, exception, tval, modeX,
            IF isExternalInterrupt(exception)
               /\ h1.extInt[ecode - INT_UExternalInterrupt] # 0
            THEN h1.extInt[ecode - INT_UExternalInterrupt]
            ELSE ecode,
            IF isInt THEN h1.pendEnab.level
            ELSE IF modeX # modeY THEN 0
            ELSE -1)))

riscvIllegalInstruction(h) ==
    riscvTakeException(h, riscv_E_IllegalInstruction,
        IF h.configInfo.tval_ii_code /\ ~h.configInfo.tval_zero
        THEN h.configInfo.instruction ELSE 0)

riscvECALL(h) ==
    riscvTakeException(h, riscv_E_EnvironmentCallFromUMode + getCurrentMode(h), 0)

doInterrupt(h) ==
    LET id == h.pendEnab.id
    IN  riscvTakeException([h EXCEPT !.pendEnab.id = RV_NO_INT,
                                     !.ev.interrupt = id],
                           intToException(id), 0)

----------------------------------------------------------------------------
(* EXCEPTION RETURN *)

\* getERETMode trusting xPP to name an implemented mode
getERETMode_Unchecked(h, newMode, minMode) == newMode

getERETMode(h, newMode, minMode) ==
    IF riscvHasMode(h, newMode) THEN newMode ELSE minMode

clearMPRV(h, newMode) ==
    IF h.configInfo.priv_version > RVPV_20190405 /\ newMode # RISCV_MODE_MACHINE
    THEN [h EXCEPT !.mstatus.MPRV = 0]
    ELSE h

\* doERETCommon resuming without checking for pending interrupts
doERETCommon_NoTest(h, retMode, newMode, epc) ==
    [setPCxRET(riscvSetMode(h, newMode), epc) EXCEPT !.ev.eret = retMode]

doERETCommon(h, retMode, newMode, epc) ==
    riscvTestInterrupt(
        [setPCxRET(riscvSetMode(h, newMode), epc) EXCEPT !.ev.eret = retMode])

\* riscvMRET forgetting to set mstatus.MPIE
riscvMRET_StaleMPIE(h) ==
    IF ~inDebugMode(h)
    THEN LET MPP     == h.mstatus.MPP
             minMode == riscvGetMinMode(h)
             newMode == getERETMode(h, MPP, minMode)
             h3 == [clearEAxRET(h) EXCEPT
                      !.mstatus.IE[RISCV_MODE_MACHINE] =
                          h.mstatus.PIE[RISCV_MODE_MACHINE],
                      !.mstatus.MPP = minMode]
         IN  doERETCommon(clearMPRV([h3 EXCEPT !.ev.xPP = MPP], newMode),
                          RISCV_MODE_MACHINE, newMode,
                          h3.epc[RISCV_MODE_MACHINE])
    ELSE h

riscvMRET(h) ==
    IF ~inDebugMode(h)
    THEN LET MPP     == h.mstatus.MPP
             minMode == riscvGetMinMode(h)
             newMode == getERETMode(h, MPP, minMode)
             h1 == clearEAxRET(h)
             h2 == IF useCLIC(h1, RISCV_MODE_MACHINE)
                   THEN [h1 EXCEPT !.mintstatus[RISCV_MODE_MACHINE] =
                                   h1.cause[RISCV_MODE_MACHINE].pil]
                   ELSE h1
             h3 == [h2 EXCEPT
                      !.mstatus.IE[RISCV_MODE_MACHINE] =
                          h2.mstatus.PIE[RISCV_MODE_MACHINE],
                      !.mstatus.PIE[RISCV_MODE_MACHINE] = 1,
                      !.mstatus.MPP = minMode]
         IN  doERETCommon(clearMPRV([h3 EXCEPT !.ev.xPP = MPP], newMode),
                          RISCV_MODE_MACHINE, newMode,
                          h3.epc[RISCV_MODE_MACHINE])
    ELSE h

\* riscvSRET returning in Debug Mode as well
riscvSRET_InDebugMode(h) ==
         LET SPP     == h.mstatus.SPP
             minMode == riscvGetMinMode(h)
             newMode == getERETMode(h, SPP, minMode)
             h1 == clearEAxRET(h)
             h2 == IF useCLIC(h1, RISCV_MODE_SUPERVISOR)
                   THEN [h1 EXCEPT !.mintstatus[RISCV_MODE_SUPERVISOR] =
                                   h1.cause[RISCV_MODE_SUPERVISOR].pil]
                   ELSE h1
             h3 == [h2 EXCEPT
                      !.mstatus.IE[RISCV_MODE_SUPERVISOR] =
                          h2.mstatus.PIE[RISCV_MODE_SUPERVISOR],
                      !.mstatus.PIE[RISCV_MODE_SUPERVISOR] = 1,
                      !.mstatus.SPP = minMode % 2]
         IN  doERETCommon(clearMPRV([h3 EXCEPT !.ev.xPP = SPP], newMode),
                          RISCV_MODE_SUPERVISOR, newMode,
                          h3.epc[RISCV_MODE_SUPERVISOR])

riscvSRET(h) ==
    IF ~inDebugMode(h)
    THEN LET SPP     == h.mstatus.SPP
             minMode == riscvGetMinMode(h)
             newMode == getERETMode(h, SPP, minMode)
             h1 == clearEAxRET(h)
             h2 == IF useCLIC(h1, RISCV_MODE_SUPERVISOR)
                   THEN [h1 EXCEPT !.mintstatus[RISCV_MODE_SUPERVISOR] =
                                   h1.cause[RISCV_MODE_SUPERVISOR].pil]
                   ELSE h1
             h3 == [h2 EXCEPT
                      !.mstatus.IE[RISCV_MODE_SUPERVISOR] =
                          h2.mstatus.PIE[RISCV_MODE_SUPERVISOR],
                      !.mstatus.PIE[RISCV_MODE_SUPERVISOR] = 1,
                      !.mstatus.SPP = minMode % 2]
         IN  doERETCommon(clearMPRV([h3 EXCEPT !.ev.xPP = SPP], newMode),
                          RISCV_MODE_SUPERVISOR, newMode,
                          h3.epc[RISCV_MODE_SUPERVISOR])
    ELSE h

riscvURET(h) ==
    IF ~inDebugMode(h)
    THEN LET h1 == clearEAxRET(h)
             h2 == IF useCLIC(h1, RISCV_MODE_USER)
                   THEN [h1 EXCEPT !.mintstatus[RISCV_MODE_USER] =
                                   h1.cause[RISCV_MODE_USER].pil]
                   ELSE h1
             h3 == [h2 EXCEPT
                      !.mstatus.IE[RISCV_MODE_USER] =
                          h2.mstatus.PIE[RISCV_MODE_USER],
                      !.mstatus.PIE[RISCV_MODE_USER] = 1]
         IN  doERETCommon(h3, RISCV_MODE_USER, RISCV_MODE_USER,
                          h3.epc[RISCV_MODE_USER])
    ELSE h

----------------------------------------------------------------------------
(* DEBUG MODE: exit, step, EBREAK *)

\* leaveDM returning to Machine mode whatever dcsr.prv holds
leaveDM_ToMachine(h) ==
    Bind(clearMPRV(setDM(h, FALSE), RISCV_MODE_MACHINE), LAMBDA h1 :
    updateDMStall(
        doERETCommon(h1, RISCV_MODE_MACHINE, RISCV_MODE_MACHINE, h1.dpc),
        FALSE))

leaveDM(h) ==
    Bind(clearMPRV(setDM(h, FALSE), h.dcsr.prv), LAMBDA h1 :
    updateDMStall(
        doERETCommon(h1, RISCV_MODE_MACHINE, h.dcsr.prv, h1.dpc), FALSE))

riscvSetDM(h, DM) ==
    IF inDebugMode(h) = DM THEN h
    ELSE IF DM THEN enterDM(h, "HALTREQ")
    ELSE leaveDM(h)

\* riscvStepExcept entering Debug Mode whatever the hart state
riscvStepExcept_Unchecked(h) == enterDM(h, "STEP")

riscvStepExcept(h) ==
    IF ~inDebugMode(h) /\ h.dcsr.step = 1 THEN enterDM(h, "STEP") ELSE h

\* vmirtSetModelTimer(stepTimer, 1): the timer expires after one instruction
riscvSetStepBreakpoint(h) ==
    IF ~inDebugMode(h) /\ h.dcsr.step = 1 THEN [h EXCEPT !.stepTimer = TRUE]
    ELSE h

\* riscvDRET returning to dpc whether or not the hart is in Debug Mode
riscvDRET_Unchecked(h) == leaveDM(h)

riscvDRET(h) ==
    IF ~inDebugMode(h) THEN riscvIllegalInstruction(h) ELSE leaveDM(h)

\* riscvEBREAK consulting dcsr.ebreakm in every mode
riscvEBREAK_MachineBit(h) ==
    LET useDM == IF inDebugMode(h) THEN TRUE ELSE h.dcsr.ebreakm = 1
    IN  IF useDM
        THEN enterDM(
                 IF h.dcsr.stopcount = 1 /\ ~riscvInhibitInstret(h)
                 THEN [h EXCEPT !.ev.baseInstructions = @ + 1] ELSE h,
                 "EBREAK")
        ELSE riscvTakeException(h, riscv_E_Breakpoint,
                 IF h.configInfo.priv_version < RVPV_1_12 THEN getPC(h) ELSE 0)

riscvEBREAK(h) ==
    LET mode  == getCurrentMode(h)
        useDM == IF inDebugMode(h) THEN TRUE
                 ELSE IF mode = RISCV_MODE_USER THEN h.dcsr.ebreaku = 1
                 ELSE IF mode = RISCV_MODE_SUPERVISOR THEN h.dcsr.ebreaks = 1
                 ELSE IF mode = RISCV_MODE_MACHINE THEN h.dcsr.ebreakm = 1
                 ELSE FALSE
    IN  IF useDM
        THEN enterDM(
                 IF h.dcsr.stopcount = 1 /\ ~riscvInhibitInstret(h)
                 THEN [h EXCEPT !.ev.baseInstructions = @ + 1] ELSE h,
                 "EBREAK")
        ELSE riscvTakeException(h, riscv_E_Breakpoint,
                 IF h.configInfo.priv_version < RVPV_1_12 THEN getPC(h) ELSE 0)

----------------------------------------------------------------------------
(* FETCH GATE *)

vmirtIsExecutable(h, thisPC) == thisPC \notin h.configInfo.noexec

\* no virtual memory is modelled, so riscvVMMiss never takes the fault itself
validateFetchAddressInt(h, thisPC, complete) ==
    IF vmirtIsExecutable(h, thisPC) THEN h
    ELSE IF complete
    THEN riscvTakeException(h, riscv_E_InstructionAccessFault, thisPC)
    ELSE h

\* instructions are four bytes long: both halves are validated
validateFetchAddress(h, thisPC, complete) ==
    IF ~vmirtIsExecutable(h, thisPC)
    THEN validateFetchAddressInt(h, thisPC, complete)
    ELSE validateFetchAddressInt(h, thisPC + 2, complete)

\* would riscvIFetchExcept return VMI_FETCH_NONE?
fetchOK(h) ==
    /\ ~h.netValue.resethaltreqS
    /\ ~(h.netValue.haltreq /\ ~inDebugMode(h))
    /\ ~getPendingAndEnabled(h)
    /\ vmirtIsExecutable(h, getPC(h))
    /\ vmirtIsExecutable(h, getPC(h) + 2)

\* riscvIFetchExcept delivering a selected interrupt ahead of a halt request
riscvIFetchExcept_InterruptFirst(h, complete) ==
    Bind([h EXCEPT !.ev.fetch = IF fetchOK(h) THEN "NONE"
                                ELSE IF complete THEN "EXCEPTION_COMPLETE"
                                ELSE "EXCEPTION_PENDING"], LAMBDA h0 :
    IF h0.netValue.resethaltreqS
    THEN IF complete
         THEN enterDM([h0 EXCEPT !.netValue.resethaltreqS = FALSE],
                      "RESETHALTREQ")
         ELSE h0
    ELSE IF getPendingAndEnabled(h0)
    THEN IF complete THEN doInterrupt(h0) ELSE h0
    ELSE IF h0.netValue.haltreq /\ ~inDebugMode(h0)
    THEN IF complete THEN enterDM(h0, "HALTREQ") ELSE h0
    ELSE validateFetchAddress(h0, getPC(h0), complete))

\* ev.fetch is the value returned to the simulator
riscvIFetchExcept(h, complete) ==
    Bind([h EXCEPT !.ev.fetch = IF fetchOK(h) THEN "NONE"
                                ELSE IF complete THEN "EXCEPTION_COMPLETE"
                                ELSE "EXCEPTION_PENDING"], LAMBDA h0 :
    IF h0.netValue.resethaltreqS
    THEN IF complete
         THEN enterDM([h0 EXCEPT !.netValue.resethaltreqS = FALSE],
                      "RESETHALTREQ")
         ELSE h0
    ELSE IF h0.netValue.haltreq /\ ~inDebugMode(h0)
    THEN IF complete THEN enterDM(h0, "HALTREQ") ELSE h0
    ELSE IF getPendingAndEnabled(h0)
    THEN IF complete THEN doInterrupt(h0) ELSE h0
    ELSE validateFetchAddress(h0, getPC(h0), complete))

riscvWFI(h) ==
    IF ~(inDebugMode(h) \/ getPending(h)) THEN haltProcessor(h, "WFI") ELSE h

----------------------------------------------------------------------------
(* RESET *)

\* riscvCSRReset: the reset values of the CSR fields of the model, as the
\* privileged architecture gives them
riscvCSRReset(h) ==
    [h EXCEPT !.mstatus.IE[RISCV_MODE_MACHINE] = 0,
              !.mstatus.MPRV = 0,
              !.cause[RISCV_MODE_MACHINE] = ZeroCause]

riscvReset(h) ==
    Bind(riscvSetDM(restartProcessor(h, RVD_RESTART_RESET), FALSE), LAMBDA h1 :
    Bind(resetCLIC(riscvCSRReset(riscvSetMode(h1, RISCV_MODE_MACHINE))),
         LAMBDA h2 :
    [vmirtSetPC(h2, h2.configInfo.reset_address) EXCEPT
        !.exception = 0,
        !.netValue.resethaltreqS = h2.netValue.resethaltreq]))

----------------------------------------------------------------------------
(* NMI AND NET PORTS *)

\* doNMI held back while deferint is high
doNMI_Deferred(h) ==
    IF h.netValue.deferint THEN h
    ELSE LET h1 == riscvSetMode(restartProcessor(h, RVD_RESTART_NMI),
                                RISCV_MODE_MACHINE)
             h2 == [h1 EXCEPT
                      !.cause[RISCV_MODE_MACHINE] =
                          [ZeroCause EXCEPT
                              !.ExceptionCode = h.configInfo.ecode_nmi],
                      !.epc[RISCV_MODE_MACHINE] = getEPC(h1),
                      !.exception = 0,
                      !.ev.nmi = TRUE]
         IN  vmirtSetPC(h2, h.configInfo.nmi_address)

doNMI(h) ==
    LET h1 == riscvSetMode(restartProcessor(h, RVD_RESTART_NMI),
                           RISCV_MODE_MACHINE)
        h2 == [h1 EXCEPT
                 !.cause[RISCV_MODE_MACHINE] =
                     [ZeroCause EXCEPT !.ExceptionCode = h.configInfo.ecode_nmi],
                 !.epc[RISCV_MODE_MACHINE] = getEPC(h1),
                 !.exception = 0,
                 !.ev.nmi = TRUE]
    IN  vmirtSetPC(h2, h.configInfo.nmi_address)

posedge(old, new) == ~old /\ new

negedge(old, new) == old /\ ~new

\* nmiPortCB taking the NMI on every rising edge, in Debug Mode too
nmiPortCB_InDebugMode(h, newValue) ==
    LET oldValue == h.netValue.nmi
        h1 == IF posedge(oldValue, newValue) THEN doNMI(h) ELSE h
    IN  [h1 EXCEPT !.dcsr.nmip = IF newValue THEN 1 ELSE 0,
                   !.netValue.nmi = newValue]

nmiPortCB(h, newValue) ==
    LET oldValue == h.netValue.nmi
        h1 == IF ~inDebugMode(h) /\ posedge(oldValue, newValue) THEN doNMI(h)
              ELSE h
    IN  [h1 EXCEPT !.dcsr.nmip = IF newValue THEN 1 ELSE 0,
                   !.netValue.nmi = newValue]

haltreqPortCB(h, newValue) ==
    LET oldValue == h.netValue.haltreq
        h1 == IF ~inDebugMode(h) /\ posedge(oldValue, newValue)
              THEN vmirtDoSynchronousInterrupt(h)
              ELSE h
    IN  [h1 EXCEPT !.netValue.haltreq = newValue]

\* resethaltreqPortCB latching the request as soon as the input changes
resethaltreqPortCB_Live(h, newValue) ==
    [h EXCEPT !.netValue.resethaltreq = newValue,
              !.netValue.resethaltreqS = newValue]

resethaltreqPortCB(h, newValue) ==
    [h EXCEPT !.netValue.resethaltreq = newValue]

resetPortCB(h, newValue) ==
    LET oldValue == h.netValue.reset
        h1 == IF posedge(oldValue, newValue) THEN haltProcessor(h, "RESET")
              ELSE IF negedge(oldValue, newValue) THEN riscvReset(h)
              ELSE h
    IN  [h1 EXCEPT !.netValue.reset = newValue]

riscvUpdatePending(h) ==
    LET oldValue == h.mip
        newValue == h.ip \cup h.swip
    IN  IF oldValue # newValue
        THEN riscvTestInterrupt([h EXCEPT !.mip = newValue])
        ELSE h

interruptPortCB(h, index, newValue) ==
    Bind([h EXCEPT !.ip = IF newValue THEN @ \cup {index} ELSE @ \ {index}],
         LAMBDA h1 :
    Bind(IF CLICPresent(h1)
         THEN updateCLICInput(h1, index, IF newValue THEN 1 ELSE 0)
         ELSE h1, LAMBDA h2 :
    IF basicICPresent(h2) THEN riscvUpdatePending(h2) ELSE h2))

interruptIDPortCB(h, offset, newValue) ==
    [h EXCEPT !.extInt[offset] = newValue]

deferintPortCB(h, newValue) ==
    LET oldValue == h.netValue.deferint
        h1 == [h EXCEPT !.netValue.deferint = newValue]
    IN  IF negedge(oldValue, newValue) THEN handlePendingAndEnabled(h1) ELSE h1

----------------------------------------------------------------------------
(* SAVE AND RESTORE of the net state *)

\* SRT_END_CORE: the fields the save context receives
riscvNetSave(h) ==
    [h EXCEPT !.cxt = [ip |-> h.ip, netValue |-> h.netValue,
                       cliccfg |-> h.clic.cliccfg,
                       intState |-> h.clic.intState]]

\* riscvNetRestore leaving clic.ipe as the running hart had it
riscvNetRestore_StaleIPE(h) ==
    Bind([h EXCEPT !.ip = h.cxt.ip, !.netValue = h.cxt.netValue], LAMBDA h1 :
    Bind(IF CLICPresent(h1)
         THEN [h1 EXCEPT !.clic.cliccfg = h.cxt.cliccfg,
                         !.clic.intState = h.cxt.intState]
         ELSE h1, LAMBDA h2 :
    riscvTestInterrupt(h2)))

\* SRT_END_CORE: the fields come back from the save context, clic.ipe is
\* rebuilt and the interrupt state is refreshed
riscvNetRestore(h) ==
    Bind([h EXCEPT !.ip = h.cxt.ip, !.netValue = h.cxt.netValue], LAMBDA h1 :
    Bind(IF CLICPresent(h1)
         THEN refreshCLICIPE([h1 EXCEPT !.clic.cliccfg = h.cxt.cliccfg,
                                        !.clic.intState = h.cxt.intState])
         ELSE h1, LAMBDA h2 :
    riscvTestInterrupt(h2)))

----------------------------------------------------------------------------
(* CONSTRUCTION: configurations and the state they start in *)

\* a hart with M, S and U and the N extension, basic interrupt controller
BaseConfig ==
    [modes |-> Modes, archN |-> TRUE, archC |-> FALSE,
     CLICPresent |-> FALSE, basicICPresent |-> TRUE,
     CLICCFGMBITS |-> 2, CLICSELHVEC |-> 1, CLICINTCTLBITS |-> 8,
     XLEN |-> 32, implemented |-> IntIds, priv_version |-> RVPV_1_12,
     tval_zero |-> TRUE, tval_ii_code |-> TRUE, instruction |-> 115,
     debug_mode |-> "VECTOR", debug_address |-> 512, dexc_address |-> 516,
     nmi_address |-> 520, ecode_nmi |-> 0, noexec |-> {},
     xret_preserves_lr |-> FALSE, reset_address |-> 0,
     external_int_id |-> FALSE]

NoDeleg == [medeleg |-> {}, sedeleg |-> {}, mideleg |-> {}, sideleg |-> {}]

\* one handler base per mode, all in direct mode
DirectTvec ==
    [m \in Modes |-> [BASE |-> 16 * (m + 1), MODE |-> riscv_int_Direct]]

VectoredTvec ==
    [m \in Modes |-> [BASE |-> 16 * (m + 1), MODE |-> riscv_int_Vectored]]

CLICTvec == [m \in Modes |-> [BASE |-> 16 * (m + 1), MODE |-> riscv_int_CLIC]]

\* riscvNewCLIC: every interrupt starts as an M-mode interrupt
NewCLICIntState(cfg) ==
    [i \in cfg.implemented |->
        [clicintip |-> 0, clicintie |-> 0,
         clicintattr |-> attrBits(0, 0, RISCV_MODE_MACHINE),
         clicintctl |-> Pow2(8 - cfg.CLICINTCTLBITS) - 1]]

NewCLICCfg(cfg) == [nvbits |-> cfg.CLICSELHVEC, nlbits |-> 0, nmbits |-> 0]

\* CLIC registers as software leaves them before interrupts are enabled:
\* the first line is an S-mode vectored level interrupt, the others are
\* M-mode vectored edge interrupts
ProgrammedCLICIntState(cfg) ==
    [i \in cfg.implemented |->
        IF i = IntSeq[1]
        THEN [clicintip |-> 0, clicintie |-> 1,
              clicintattr |-> attrBits(1, 0, RISCV_MODE_SUPERVISOR),
              clicintctl |-> 128]
        ELSE [clicintip |-> 0, clicintie |-> 1,
              clicintattr |-> attrBits(1, 1, RISCV_MODE_MACHINE),
              clicintctl |-> 128]]

ProgrammedCLICCfg == [nvbits |-> 1, nlbits |-> 1, nmbits |-> 2]

\* M/S/U hart without user-level traps: two exceptions and the external
\* interrupt are delegated to S
SetupDeleg ==
    LET cfg == [BaseConfig EXCEPT !.archN = FALSE]
    IN  [name |-> "deleg", configInfo |-> cfg, tvec |-> DirectTvec,
         deleg |-> [medeleg |-> {riscv_E_IllegalInstruction,
                                 riscv_E_EnvironmentCallFromUMode},
                    sedeleg |-> {},
                    mideleg |-> {INT_SExternalInterrupt},
                    sideleg |-> {}],
         MPP |-> RISCV_MODE_MACHINE,
         cliccfg |-> NewCLICCfg(cfg),
         intState |-> NewCLICIntState(cfg)]

\* M/S/U hart with no interrupt line, whose ECALL from S is delegated by
\* medeleg and by sedeleg
SetupSDeleg ==
    LET cfg == [BaseConfig EXCEPT !.implemented = {},
                                  !.tval_zero = FALSE,
                                  !.tval_ii_code = FALSE]
    IN  [name |-> "sdeleg", configInfo |-> cfg, tvec |-> DirectTvec,
         deleg |-> [medeleg |-> {riscv_E_EnvironmentCallFromSMode},
                    sedeleg |-> {riscv_E_EnvironmentCallFromSMode},
                    mideleg |-> {},
                    sideleg |-> {}],
         MPP |-> RISCV_MODE_MACHINE,
         cliccfg |-> NewCLICCfg(cfg),
         intState |-> NewCLICIntState(cfg)]

\* M/S/U hart with user-level traps: ECALL from U and the first interrupt
\* line are delegated on to U
SetupUser ==
    LET cfg == [BaseConfig EXCEPT !.implemented = {IntSeq[1]}]
    IN  [name |-> "user", configInfo |-> cfg, tvec |-> VectoredTvec,
         deleg |-> [medeleg |-> {riscv_E_EnvironmentCallFromUMode},
                    sedeleg |-> {riscv_E_EnvironmentCallFromUMode},
                    mideleg |-> {IntSeq[1]},
                    sideleg |-> {IntSeq[1]}],
         MPP |-> RISCV_MODE_MACHINE,
         cliccfg |-> NewCLICCfg(cfg),
         intState |-> NewCLICIntState(cfg)]

\* M/U hart without user-level interrupts, whose mstatus.MPP software has
\* left naming the Supervisor mode the hart does not implement
SetupMU ==
    LET cfg == [BaseConfig EXCEPT
                   !.modes = {RISCV_MODE_USER, RISCV_MODE_MACHINE},
                   !.archN = FALSE, !.archC = TRUE,
                   !.implemented = {IntSeq[1]},
                   !.tval_zero = FALSE,
                   !.debug_mode = "HALT",
                   !.priv_version = RVPV_20190405]
    IN  [name |-> "mu", configInfo |-> cfg, tvec |-> DirectTvec,
         deleg |-> NoDeleg, MPP |-> RISCV_MODE_SUPERVISOR,
         cliccfg |-> NewCLICCfg(cfg),
         intState |-> NewCLICIntState(cfg)]

\* M/S/U hart in CLIC mode with selective hardware vectoring, wired to
\* the interrupt lines `lines`
SetupCLIC(lines) ==
    LET cfg == [BaseConfig EXCEPT !.CLICPresent = TRUE,
                                  !.basicICPresent = FALSE,
                                  !.external_int_id = TRUE,
                                  !.implemented = lines]
    IN  [name |-> "clic", configInfo |-> cfg, tvec |-> CLICTvec,
         deleg |-> NoDeleg, MPP |-> RISCV_MODE_MACHINE,
         cliccfg |-> ProgrammedCLICCfg,
         intState |-> ProgrammedCLICIntState(cfg)]

\* the IDs an external interrupt controller latches on an ID port: none,
\* or the ID of one of its sources
ExternalIds == {0, INT_MSWInterrupt}

\* the vector table: the entry of the first interrupt line and the entry an
\* external ID selects are mapped, each holding a handler address with the
\* low bit set
VectorTable ==
    ((4 * IntSeq[1]) :> 257) @@ ((4 * INT_MSWInterrupt) :> 385)

\* no CLIC register access was made
NoAccess ==
    [pageMode |-> 0, intIndex |-> 0, type |-> "none", newValue |-> 0,
     value |-> [clicintip |-> 0, clicintie |-> 0, clicintattr |-> 0,
                clicintctl |-> 0]]

NoTrap ==
    [taken |-> FALSE, exception |-> 0, code |-> 0, modeX |-> 0, modeY |-> 0,
     preIE |-> 0, priv |-> 0, level |-> 0, isCLIC |-> FALSE, depth |-> 0]

FreshEv(op, attrPage) ==
    [op |-> op, sched |-> FALSE, tested |-> FALSE, enteredDM |-> FALSE,
     abortRepeat |-> FALSE, nmi |-> FALSE, notified |-> 0, eret |-> -1,
     baseInstructions |-> 0, interrupt |-> RV_NO_INT, xPP |-> -1,
     attrAbove |-> FALSE, trap |-> NoTrap, access |-> NoAccess,
     fetch |-> "none", restarted |-> FALSE,
     attrPage |-> attrPage]

\* the hart as riscvNewCLIC and the first reset leave it, with the CSRs of
\* set-up s
NewHart(s) ==
    LET nets == [deferint |-> FALSE, haltreq |-> FALSE,
                 resethaltreq |-> FALSE, resethaltreqS |-> FALSE,
                 nmi |-> FALSE, reset |-> FALSE]
    IN
    [configInfo |-> s.configInfo,
     mode |-> RISCV_MODE_MACHINE, DM |-> FALSE, DMStall |-> FALSE,
     disable |-> {}, PC |-> 0, exclusiveTag |-> FALSE, exception |-> 0,
     AFErrorIn |-> "None", AFErrorOut |-> "None",
     mstatus |-> [IE |-> [m \in Modes |-> 1], PIE |-> [m \in Modes |-> 1],
                  MPP |-> s.MPP, SPP |-> 1, MPRV |-> 0],
     cause |-> [m \in Modes |-> ZeroCause],
     epc |-> [m \in Modes |-> 0],
     tval |-> [m \in Modes |-> 0],
     tvec |-> s.tvec,
     tvt |-> [m \in Modes |-> 0],
     IMode |-> [m \in Modes |-> riscv_int_Direct],
     mintstatus |-> [m \in Modes |-> 0],
     intthresh |-> [m \in Modes |-> 0],
     medeleg |-> s.deleg.medeleg, sedeleg |-> s.deleg.sedeleg,
     mideleg |-> s.deleg.mideleg, sideleg |-> s.deleg.sideleg,
     mie |-> s.configInfo.implemented, mip |-> {}, ip |-> {}, swip |-> {},
     extInt |-> [o \in 0..3 |-> 0],
     dcsr |-> [prv |-> RISCV_MODE_MACHINE, cause |-> "NONE", step |-> 0,
               ebreakm |-> 0, ebreaks |-> 1, ebreaku |-> 0, stopcount |-> 0,
               nmip |-> 0],
     dpc |-> 0,
     netValue |-> nets,
     \* the checkpoint of the new hart
     cxt |-> [ip |-> {}, netValue |-> nets, cliccfg |-> s.cliccfg,
              intState |-> s.intState],
     pendEnab |-> [id |-> RV_NO_INT, priv |-> 0, level |-> 0, isCLIC |-> FALSE],
     clic |-> [cliccfg |-> s.cliccfg, intState |-> s.intState, ipe |-> {},
               sel |-> [priv |-> 0, id |-> RV_NO_INT, level |-> 0,
                        shv |-> FALSE]],
     mem |-> VectorTable,
     mcountinhibitIR |-> FALSE,
     \* the step timer has been set and has not expired yet
     stepTimer |-> FALSE]

----------------------------------------------------------------------------
(* THE STATE MACHINE *)

\* the hart record with the observation of the running operation attached
With(h, v) == [f \in DOMAIN h \cup {"ev"} |-> IF f = "ev" THEN v ELSE h[f]]

Strip(h) == [f \in DOMAIN h \ {"ev"} |-> h[f]]

Begin(op) == With(riscv, FreshEv(op, ev.attrPage))

Apply(r) == riscv' = Strip(r) /\ ev' = r.ev

\* the set-ups the trap machine is run from
Setups ==
    {SetupDeleg, SetupSDeleg, SetupUser, SetupMU}
        \cup {SetupCLIC({i}) : i \in IntIds}

Init ==
    \E s \in Setups :
        /\ riscv = NewHart(s)
        /\ ev = FreshEv("init", [i \in IntIds |-> RISCV_MODE_MACHINE])

\* the hart is running and the fetch gate lets the next instruction through
canExecute == riscv.disable = {} /\ fetchOK(riscv)

\* the simulator fetches: the gate takes a trap or enters Debug Mode
IFetchExcept ==
    /\ riscv.disable = {}
    /\ ~fetchOK(riscv)
    /\ Apply(riscvIFetchExcept(Begin("ifetch"), TRUE))

ECALL == canExecute /\ Apply(riscvECALL(Begin("ecall")))

EBREAK == canExecute /\ Apply(riscvEBREAK(Begin("ebreak")))

\* the decoder lets mret through in Machine mode only
MRET ==
    /\ canExecute
    /\ getCurrentMode(riscv) = RISCV_MODE_MACHINE
    /\ Apply(riscvMRET(Begin("mret")))

SRET ==
    /\ canExecute
    /\ riscvHasMode(riscv, RISCV_MODE_SUPERVISOR)
    /\ getCurrentMode(riscv) >= RISCV_MODE_SUPERVISOR
    /\ Apply(riscvSRET(Begin("sret")))

URET ==
    /\ canExecute
    /\ riscv.configInfo.archN
    /\ Apply(riscvURET(Begin("uret")))

DRET == canExecute /\ Apply(riscvDRET(Begin("dret")))

WFI == canExecute /\ Apply(riscvWFI(Begin("wfi")))

\* the debug module releases a hart that is halted in Debug Mode
SetDM ==
    /\ inDebugMode(riscv)
    /\ riscv.DMStall
    /\ Apply(riscvSetDM(Begin("setdm"), FALSE))

InterruptPort ==
    \E index \in riscv.configInfo.implemented, newValue \in BOOLEAN :
        /\ (index \in riscv.ip) # newValue
        /\ Apply(interruptPortCB(Begin("interrupt"), index, newValue))

\* the {priv}ExternalInterruptID port of an implemented external interrupt
InterruptIDPort ==
    \E id \in riscv.configInfo.implemented, newValue \in ExternalIds :
        /\ riscv.configInfo.external_int_id
        /\ isExternalInterrupt(intToException(id))
        /\ riscv.extInt[id - INT_UExternalInterrupt] # newValue
        /\ Apply(interruptIDPortCB(Begin("interruptid"),
                                   id - INT_UExternalInterrupt, newValue))

DeferintPort ==
    \E newValue \in BOOLEAN :
        /\ riscv.netValue.deferint # newValue
        /\ Apply(deferintPortCB(Begin("deferint"), newValue))

NmiPort ==
    \E newValue \in BOOLEAN :
        /\ riscv.netValue.nmi # newValue
        /\ Apply(nmiPortCB(Begin("nmi"), newValue))

HaltreqPort ==
    \E newValue \in BOOLEAN :
        /\ riscv.netValue.haltreq # newValue
        /\ Apply(haltreqPortCB(Begin("haltreq"), newValue))

ResethaltreqPort ==
    \E newValue \in BOOLEAN :
        /\ riscv.netValue.resethaltreq # newValue
        /\ Apply(resethaltreqPortCB(Begin("resethaltreq"), newValue))

ResetPort ==
    \E newValue \in BOOLEAN :
        /\ riscv.netValue.reset # newValue
        /\ Apply(resetPortCB(Begin("reset"), newValue))

\* software sets or clears clicintip / clicintie through a page of the CLIC
WriteCLICPendingEnable ==
    \E pageMode \in Modes, intIndex \in riscv.configInfo.implemented,
       type \in {"clicintip", "clicintie"}, newValue \in 0..1 :
        /\ CLICPresent(riscv)
        /\ Apply(writeCLICInterrupt(Begin("clicwrite"), pageMode, intIndex,
                                    type, newValue))

Next ==
    \/ IFetchExcept
    \/ ECALL
    \/ MRET
    \/ SRET
    \/ URET
    \/ DRET
    \/ InterruptPort
    \/ InterruptIDPort
    \/ DeferintPort

Spec == Init /\ [][Next]_vars

----------------------------------------------------------------------------
(* THE DEBUG MACHINE: the same hart with Debug Mode, NMI and haltreq driven *)

SetupsDM == {SetupMU, SetupCLIC({IntSeq[1]})}

InitDM ==
    \E s \in SetupsDM :
        /\ riscv = NewHart(s)
        /\ ev = FreshEv("init", [i \in IntIds |-> RISCV_MODE_MACHINE])

NextDM ==
    \/ IFetchExcept
    \/ ECALL
    \/ EBREAK
    \/ MRET
    \/ DRET
    \/ WFI
    \/ SetDM
    \/ InterruptPort
    \/ NmiPort
    \/ HaltreqPort

SpecDM == InitDM /\ [][NextDM]_vars

----------------------------------------------------------------------------
(* THE CLIC REGISTER FILE: memory-mapped writes to a freshly built CLIC *)

\* harts with a CLIC as riscvNewCLIC leaves it: M/S/U with N, and M/U
SetupNewCLIC(lines, mbits, hvec, n) ==
    LET cfg == [BaseConfig EXCEPT !.CLICPresent = TRUE,
                                  !.basicICPresent = FALSE,
                                  !.implemented = lines,
                                  !.CLICCFGMBITS = mbits,
                                  !.CLICSELHVEC = hvec,
                                  !.archN = n]
    IN  [name |-> "newclic", configInfo |-> cfg, tvec |-> CLICTvec,
         deleg |-> NoDeleg, MPP |-> RISCV_MODE_MACHINE,
         cliccfg |-> NewCLICCfg(cfg),
         intState |-> NewCLICIntState(cfg)]

SetupsCLIC ==
    {SetupNewCLIC({IntSeq[1]}, 2, 1, TRUE),
     SetupNewCLIC({IntSeq[1]}, 1, 0, TRUE),
     SetupNewCLIC({IntSeq[NumInts]}, 2, 1, FALSE)}

\* cliccfg bytes software writes: nmbits 0..3 with nlbits 0 or 9
CfgInputs == {32 * nm + 2 * nl : nm \in 0..3, nl \in {0, 9}}

\* clicintattr bytes software writes: every mode field, for a level-triggered
\* interrupt without hardware vectoring and an edge-triggered one with it
AttrInputs == {attrBits(v, v, mode) : v \in 0..1, mode \in 0..3}

InitCLIC ==
    \E s \in SetupsCLIC :
        /\ riscv = NewHart(s)
        /\ ev = FreshEv("init", [i \in IntIds |-> RISCV_MODE_MACHINE])

WriteCliccfg ==
    \E newValue \in CfgInputs :
        /\ CLICPresent(riscv)
        /\ Apply(cliccfgW(Begin("cliccfg"), newValue))

WriteCLICAttr ==
    \E pageMode \in Modes, intIndex \in riscv.configInfo.implemented,
       newValue \in AttrInputs :
        /\ CLICPresent(riscv)
        /\ Apply(writeCLICInterrupt(Begin("clicattr"), pageMode, intIndex,
                                    "clicintattr", newValue))

NextCLIC ==
    \/ WriteCliccfg
    \/ WriteCLICAttr
    \/ WriteCLICPendingEnable
    \/ InterruptPort

SpecCLIC == InitCLIC /\ [][NextCLIC]_vars

----------------------------------------------------------------------------
(* CLICCFG: the configuration byte written and reset while interrupts come
   and go *)

\* cliccfg bytes software writes: legal and excessive nmbits and nlbits, with
\* the read-only nvbits bit and the reserved top bit clear and set
CfgBytes == {0, 1, 2 * 8 + 32, 2 * 9 + 64, 2 * 3 + 32 * 3 + 1, 128, 255}

\* ev.access.newValue is the byte written
CliccfgWrite ==
    \E newValue \in CfgBytes :
        /\ CLICPresent(riscv)
        /\ Apply(cliccfgW(
               [Begin("cliccfg") EXCEPT !.ev.access.newValue = newValue],
               newValue))

InitCfg ==
    \E s \in SetupsCLIC :
        /\ riscv = NewHart(s)
        /\ ev = FreshEv("init", [i \in IntIds |-> RISCV_MODE_MACHINE])

NextCfg ==
    \/ CliccfgWrite
    \/ WriteCLICPendingEnable
    \/ InterruptPort
    \/ ResetPort

SpecCfg == InitCfg /\ [][NextCfg]_vars

----------------------------------------------------------------------------
(* THE CLIC PAGES: every register of an interrupt read and written through
   the page of each mode *)

\* a programmed M/S/U hart, and a new M/U hart whose second line is wired
SetupsAccess ==
    {SetupCLIC({IntSeq[1]}), SetupNewCLIC({IntSeq[NumInts]}, 1, 0, FALSE)}

\* bytes software writes to the four registers of an interrupt
AccessInputs == {attrBits(1, 0, RISCV_MODE_USER),
                 attrBits(0, 1, RISCV_MODE_SUPERVISOR)}

InitAccess ==
    \E s \in SetupsAccess :
        /\ riscv = NewHart(s)
        /\ ev = FreshEv("init", [i \in IntIds |-> RISCV_MODE_MACHINE])

\* readCLIC of the word of interrupt intIndex in the page of pageMode
ReadCLIC ==
    \E pageMode \in Modes, intIndex \in IntIds :
        /\ CLICPresent(riscv)
        /\ Apply([Begin("clicread") EXCEPT
                    !.ev.access =
                        [pageMode |-> pageMode, intIndex |-> intIndex,
                         type |-> "read", newValue |-> 0,
                         value |-> readCLICInterrupt(riscv, pageMode,
                                                     intIndex)]])

\* writeCLIC of one byte of interrupt intIndex in the page of pageMode
WriteCLIC ==
    \E pageMode \in Modes, intIndex \in IntIds, newValue \in AccessInputs,
       type \in {"clicintip", "clicintie", "clicintattr", "clicintctl"} :
        /\ CLICPresent(riscv)
        /\ Apply([writeCLICInterrupt(Begin("clicaccess"), pageMode, intIndex,
                                     type, newValue)
                  EXCEPT !.ev.access =
                        [NoAccess EXCEPT !.pageMode = pageMode,
                                         !.intIndex = intIndex,
                                         !.type = type,
                                         !.newValue = newValue]])

NextAccess ==
    \/ ReadCLIC
    \/ WriteCLIC
    \/ WriteCliccfg

SpecAccess == InitAccess /\ [][NextAccess]_vars

----------------------------------------------------------------------------
(* THE CLIC IN SERVICE: interrupts of a programmed CLIC are raised, enabled,
   taken and acknowledged while the net state is saved and restored *)

\* a hart wired to every interrupt line of the model
SetupsIC == {SetupCLIC(IntIds)}

InitIC ==
    \E s \in SetupsIC :
        /\ riscv = NewHart(s)
        /\ ev = FreshEv("init", [i \in IntIds |-> RISCV_MODE_MACHINE])

NetSave ==
    /\ riscvNetSave(riscv) # riscv
    /\ Apply(riscvNetSave(Begin("save")))

NetRestore ==
    /\ CLICPresent(riscv)
    /\ Apply(riscvNetRestore(Begin("restore")))

NextIC ==
    \/ WriteCLICPendingEnable
    \/ InterruptPort
    \/ IFetchExcept
    \/ NetSave
    \/ NetRestore

SpecIC == InitIC /\ [][NextIC]_vars

----------------------------------------------------------------------------
(* THE FETCH GATE: reset, halt requests, interrupts and fetch faults meet at
   the gate of a hart whose reset address is not executable *)

\* M/U hart with the basic interrupt controller and one interrupt line,
\* whose Debug Mode runs from the debug vectors
SetupGate ==
    LET cfg == [BaseConfig EXCEPT
                   !.modes = {RISCV_MODE_USER, RISCV_MODE_MACHINE},
                   !.archN = FALSE,
                   !.implemented = {IntSeq[1]},
                   !.tval_zero = FALSE,
                   !.noexec = {BaseConfig.reset_address}]
    IN  [name |-> "gate", configInfo |-> cfg, tvec |-> DirectTvec,
         deleg |-> NoDeleg, MPP |-> RISCV_MODE_MACHINE,
         cliccfg |-> NewCLICCfg(cfg),
         intState |-> NewCLICIntState(cfg)]

InitGate ==
    /\ riscv = NewHart(SetupGate)
    /\ ev = FreshEv("init", [i \in IntIds |-> RISCV_MODE_MACHINE])

\* the simulator asks the gate about the next fetch, to complete it or only
\* to probe it
IFetch ==
    \E complete \in BOOLEAN :
        /\ riscv.disable = {}
        /\ Apply(riscvIFetchExcept(Begin(IF complete THEN "ifetch"
                                         ELSE "ifetchprobe"), complete))

NextGate ==
    \/ IFetch
    \/ ECALL
    \/ MRET
    \/ DRET
    \/ InterruptPort
    \/ DeferintPort
    \/ HaltreqPort
    \/ ResethaltreqPort
    \/ ResetPort

SpecGate == InitGate /\ [][NextGate]_vars

----------------------------------------------------------------------------
(* THE RETURNS: mret, sret, uret and dret on harts that take interrupts in
   Machine, Supervisor and User mode and enter Debug Mode on haltreq *)

SetupsRet == {SetupUser, SetupDeleg}

InitRet ==
    \E s \in SetupsRet :
        /\ riscv = NewHart(s)
        /\ ev = FreshEv("init", [i \in IntIds |-> RISCV_MODE_MACHINE])

NextRet ==
    \/ IFetchExcept
    \/ MRET
    \/ SRET
    \/ URET
    \/ DRET
    \/ InterruptPort
    \/ HaltreqPort

SpecRet == InitRet /\ [][NextRet]_vars

----------------------------------------------------------------------------
(* THE RETIRED-INSTRUCTION COUNT: harts of both privileged-architecture
   versions, with mcountinhibit.IR clear or set, that trap on ecall, ebreak,
   an illegal dret, a fetch fault and an interrupt *)

SetupsCount == {SetupMU, SetupGate}

InitCount ==
    \E s \in SetupsCount, IR \in BOOLEAN :
        /\ riscv = [NewHart(s) EXCEPT !.mcountinhibitIR = IR]
        /\ ev = FreshEv("init", [i \in IntIds |-> RISCV_MODE_MACHINE])

NextCount ==
    \/ IFetchExcept
    \/ ECALL
    \/ EBREAK
    \/ MRET
    \/ DRET
    \/ InterruptPort

SpecCount == InitCount /\ [][NextCount]_vars

----------------------------------------------------------------------------
(* THE BASIC ARBITER: a hart in any mode, with any global enables, one of
   several delegations and one of several mie values, whose interrupt lines
   rise and fall *)

ArbLines ==
    {INT_SSWInterrupt, INT_MSWInterrupt, INT_MTimerInterrupt,
     INT_SExternalInterrupt, INT_Local}

\* M/S/U hart with user-level interrupts and the basic interrupt controller
SetupArb ==
    LET cfg == [BaseConfig EXCEPT !.implemented = ArbLines]
    IN  [name |-> "arb", configInfo |-> cfg, tvec |-> DirectTvec,
         deleg |-> NoDeleg, MPP |-> RISCV_MODE_MACHINE,
         cliccfg |-> NewCLICCfg(cfg),
         intState |-> NewCLICIntState(cfg)]

\* mideleg and sideleg as software programs them: nothing delegated; the
\* machine timer alone delegated to S; everything delegated to S; all but
\* one line delegated to S and two on to U; a sideleg bit without its mideleg
\* bit
ArbDelegs ==
    {[mideleg |-> {}, sideleg |-> {}],
     [mideleg |-> {INT_MTimerInterrupt}, sideleg |-> {}],
     [mideleg |-> ArbLines, sideleg |-> {}],
     [mideleg |-> ArbLines \ {INT_MSWInterrupt},
      sideleg |-> {INT_SExternalInterrupt, INT_Local}],
     [mideleg |-> {INT_Local}, sideleg |-> {INT_MTimerInterrupt}]}

\* mie as software programs it
ArbEnables ==
    {ArbLines, ArbLines \ {INT_MSWInterrupt},
     {INT_SSWInterrupt, INT_MTimerInterrupt, INT_Local}}

InitArb ==
    \E mode \in Modes, IE \in [Modes -> {0, 1}], d \in ArbDelegs,
       mie \in ArbEnables :
        /\ riscv = [NewHart(SetupArb) EXCEPT !.mode = mode,
                                             !.mstatus.IE = IE,
                                             !.mideleg = d.mideleg,
                                             !.sideleg = d.sideleg,
                                             !.mie = mie]
        /\ ev = FreshEv("init", [i \in IntIds |-> RISCV_MODE_MACHINE])

NextArb == InterruptPort

SpecArb == InitArb /\ [][NextArb]_vars

----------------------------------------------------------------------------
(* THE CLIC ARBITER: three interrupts programmed with any of several modes
   and control bytes, under several cliccfg values, set pending and enabled
   by software *)

SelLines == {INT_MSWInterrupt, INT_MTimerInterrupt, INT_SExternalInterrupt}

\* clicintctl bytes software programs
SelCtls == {100, 191}

\* cliccfg values software programs: all eight level bits, two level bits,
\* and neither mode nor level bits
SelCfgs ==
    {[nvbits |-> 1, nlbits |-> 8, nmbits |-> 2],
     [nvbits |-> 1, nlbits |-> 2, nmbits |-> 2],
     [nvbits |-> 1, nlbits |-> 0, nmbits |-> 0]}

InitSel ==
    \E mode \in [SelLines -> {RISCV_MODE_SUPERVISOR, RISCV_MODE_MACHINE}],
       ctl \in [SelLines -> SelCtls], cfg \in SelCfgs :
        /\ riscv = [NewHart(SetupCLIC(SelLines)) EXCEPT
                       !.clic.cliccfg = cfg,
                       !.clic.intState =
                           [i \in SelLines |->
                               [clicintip |-> 0, clicintie |-> 0,
                                clicintattr |-> attrBits(0, 0, mode[i]),
                                clicintctl |-> ctl[i]]]]
        /\ ev = FreshEv("init", [i \in IntIds |-> RISCV_MODE_MACHINE])

NextSel == WriteCLICPendingEnable

SpecSel == InitSel /\ [][NextSel]_vars

----------------------------------------------------------------------------
(* PRESENTATION: a hart with both interrupt controllers, in any mode and with
   any global enables, where one line feeds the basic controller and another
   the CLIC *)

PresBasicLine == INT_MTimerInterrupt

PresCLICLine == INT_SExternalInterrupt

\* M/S/U hart with user-level interrupts, the basic controller and the CLIC
SetupPres ==
    LET cfg == [BaseConfig EXCEPT !.CLICPresent = TRUE,
                                  !.implemented = {PresBasicLine,
                                                   PresCLICLine}]
    IN  [name |-> "pres", configInfo |-> cfg, tvec |-> CLICTvec,
         deleg |-> NoDeleg, MPP |-> RISCV_MODE_MACHINE,
         cliccfg |-> [nvbits |-> 1, nlbits |-> 8, nmbits |-> 2],
         intState |-> NewCLICIntState(cfg)]

\* xtvec.MODE of each mode as software programs it: CLIC in every mode, CLIC
\* in none, CLIC in Machine mode only, CLIC below Machine mode only
PresTvecs ==
    {[m \in Modes |->
         [BASE |-> 16 * (m + 1),
          MODE |-> IF m \in clicModes THEN riscv_int_CLIC
                   ELSE riscv_int_Direct]] :
        clicModes \in {Modes, {}, {RISCV_MODE_MACHINE},
                       {RISCV_MODE_USER, RISCV_MODE_SUPERVISOR}}}

\* interrupt levels held in mintstatus and thresholds held in xintthresh
PresLevels == {0, 150}

InitPres ==
    \E mode \in Modes, IE \in [Modes -> {0, 1}], tvec \in PresTvecs,
       priv \in {RISCV_MODE_SUPERVISOR, RISCV_MODE_MACHINE},
       ctl \in SelCtls, il \in PresLevels, th \in PresLevels,
       mideleg \in {{}, {PresBasicLine}} :
        /\ riscv = [NewHart(SetupPres) EXCEPT
                       !.mode = mode,
                       !.mstatus.IE = IE,
                       !.tvec = tvec,
                       !.mideleg = mideleg,
                       !.mie = {PresBasicLine},
                       !.mintstatus = [m \in Modes |-> il],
                       !.intthresh = [m \in Modes |-> th],
                       !.clic.intState[PresCLICLine] =
                           [clicintip |-> 0, clicintie |-> 1,
                            clicintattr |-> attrBits(0, 0, priv),
                            clicintctl |-> ctl]]
        /\ ev = FreshEv("init", [i \in IntIds |-> RISCV_MODE_MACHINE])

NextPres == InterruptPort

SpecPres == InitPres /\ [][NextPres]_vars

----------------------------------------------------------------------------
(* VECTORING: harts whose xtvec.BASE is not 64-byte aligned, wired to the
   machine timer and machine external interrupts, the latter with an
   external interrupt ID port *)

VecLines == {INT_MTimerInterrupt, INT_MExternalInterrupt}

\* xtvec of every mode in interrupt mode MODE, the base being 64*(m+1) + 20
VecTvec(MODE) ==
    [m \in Modes |-> [BASE |-> 16 * (m + 1) + 5, MODE |-> MODE]]

\* M/S/U hart with the basic interrupt controller
SetupVec(MODE, mideleg) ==
    LET cfg == [BaseConfig EXCEPT !.implemented = VecLines,
                                  !.tval_zero = FALSE,
                                  !.external_int_id = TRUE]
    IN  [name |-> "vec", configInfo |-> cfg, tvec |-> VecTvec(MODE),
         deleg |-> [NoDeleg EXCEPT !.mideleg = mideleg],
         MPP |-> RISCV_MODE_MACHINE,
         cliccfg |-> NewCLICCfg(cfg),
         intState |-> NewCLICIntState(cfg)]

\* M/S/U hart in CLIC mode: the timer is an S-mode level interrupt of level
\* 100, the external interrupt an M-mode edge interrupt of level 191, and
\* both are hardware vectored when shv = 1
SetupVecCLIC(shv) ==
    LET cfg == [BaseConfig EXCEPT !.implemented = VecLines,
                                  !.CLICPresent = TRUE,
                                  !.basicICPresent = FALSE,
                                  !.tval_zero = FALSE,
                                  !.external_int_id = TRUE]
    IN  [name |-> "vecclic", configInfo |-> cfg,
         tvec |-> VecTvec(riscv_int_CLIC),
         deleg |-> NoDeleg, MPP |-> RISCV_MODE_MACHINE,
         cliccfg |-> [nvbits |-> 1, nlbits |-> 8, nmbits |-> 2],
         intState |->
             [i \in VecLines |->
                 IF i = INT_MTimerInterrupt
                 THEN [clicintip |-> 0, clicintie |-> 1,
                       clicintattr |-> attrBits(shv, 0, RISCV_MODE_SUPERVISOR),
                       clicintctl |-> 100]
                 ELSE [clicintip |-> 0, clicintie |-> 1,
                       clicintattr |-> attrBits(shv, 1, RISCV_MODE_MACHINE),
                       clicintctl |-> 191]]]

SetupsVec ==
    {SetupVec(MODE, mideleg) :
        MODE \in {riscv_int_Direct, riscv_int_Vectored},
        mideleg \in {{}, {INT_MTimerInterrupt}}}
        \cup {SetupVecCLIC(shv) : shv \in 0..1}

\* interrupt levels the hart may be running at
VecLevels == {0, 50}

\* stvt as software leaves it: the base of the mapped table, or a base whose
\* table is not mapped
VecTables == {0, 64}

InitVec ==
    \E s \in SetupsVec, mode \in {RISCV_MODE_USER, RISCV_MODE_MACHINE},
       il \in VecLevels, stvt \in VecTables :
        /\ s.configInfo.CLICPresent \/ (il = 0 /\ stvt = 0)
        /\ riscv = [NewHart(s) EXCEPT
                       !.mode = mode,
                       !.tvt[RISCV_MODE_SUPERVISOR] = stvt,
                       !.mintstatus = [m \in Modes |->
                                          IF s.configInfo.CLICPresent
                                          THEN il ELSE 0]]
        /\ ev = FreshEv("init", [i \in IntIds |-> RISCV_MODE_MACHINE])

NextVec ==
    \/ IFetchExcept
    \/ ECALL
    \/ MRET
    \/ InterruptPort
    \/ InterruptIDPort

SpecVec == InitVec /\ [][NextVec]_vars

----------------------------------------------------------------------------
(* DEBUG AND RETURN: harts of both privileged-architecture versions that
   enter Debug Mode at debug_address, with no interrupt line, whose
   mstatus.MPRV and dcsr.ebreak{m,s,u} software has programmed and which
   may hold an exclusive reservation *)

\* M/S/U hart with user-level traps: Breakpoint is delegated to S
SetupDbg(version) ==
    LET cfg == [BaseConfig EXCEPT !.implemented = {},
                                  !.tval_zero = FALSE,
                                  !.priv_version = version]
    IN  [name |-> "dbg", configInfo |-> cfg, tvec |-> DirectTvec,
         deleg |-> [NoDeleg EXCEPT !.medeleg = {riscv_E_Breakpoint}],
         MPP |-> RISCV_MODE_MACHINE,
         cliccfg |-> NewCLICCfg(cfg),
         intState |-> NewCLICIntState(cfg)]

SetupsDbg == {SetupDbg(version) : version \in {RVPV_20190405, RVPV_1_12}}

\* dcsr.ebreakm, dcsr.ebreaks and dcsr.ebreaku as the debugger leaves them
DbgEbreaks == {<<0, 0, 0>>, <<0, 1, 0>>, <<1, 0, 1>>}

InitDbg ==
    \E s \in SetupsDbg, MPRV \in 0..1, ebreak \in DbgEbreaks,
       exclusiveTag \in BOOLEAN :
        /\ riscv = [NewHart(s) EXCEPT !.mstatus.MPRV = MPRV,
                                      !.exclusiveTag = exclusiveTag,
                                      !.dcsr.ebreakm = ebreak[1],
                                      !.dcsr.ebreaks = ebreak[2],
                                      !.dcsr.ebreaku = ebreak[3]]
        /\ ev = FreshEv("init", [i \in IntIds |-> RISCV_MODE_MACHINE])

NextDbg ==
    \/ EBREAK
    \/ MRET
    \/ SRET
    \/ URET
    \/ DRET

SpecDbg == InitDbg /\ [][NextDbg]_vars

----------------------------------------------------------------------------
(* CLICINTCTL: the level and priority byte of each interrupt written on
   harts that implement none, some or all of its bits *)

\* the values of CLICINTCTLBITS of the harts
CtlBits == {0, 3, 8}

\* a new M/S/U hart with two CLIC interrupts and CLICINTCTLBITS of bits
SetupCtl(bits) ==
    LET s   == SetupNewCLIC({IntSeq[1], IntSeq[NumInts]}, 2, 1, TRUE)
        cfg == [s.configInfo EXCEPT !.CLICINTCTLBITS = bits]
    IN  [s EXCEPT !.name = "ctl", !.configInfo = cfg,
                  !.intState = NewCLICIntState(cfg)]

SetupsCtl == {SetupCtl(bits) : bits \in CtlBits}

\* clicintctl bytes software writes
CtlBytes == {0, 85, 128}

\* clicintattr bytes software writes: an interrupt of each mode
CtlAttrs == {attrBits(0, 0, mode) : mode \in Modes}

\* cliccfg.nmbits as software has left it: M-mode interrupts only, or
\* interrupts of every mode
InitCtl ==
    \E s \in SetupsCtl, nmbits \in {0, 2} :
        /\ riscv = [NewHart(s) EXCEPT !.clic.cliccfg.nmbits = nmbits]
        /\ ev = FreshEv("init", [i \in IntIds |-> RISCV_MODE_MACHINE])

\* writeCLIC of one byte of interrupt intIndex in the page of pageMode
WriteCLICByte(type, Bytes) ==
    \E pageMode \in Modes, intIndex \in riscv.configInfo.implemented,
       newValue \in Bytes :
        /\ CLICPresent(riscv)
        /\ Apply([writeCLICInterrupt(Begin("clicaccess"), pageMode, intIndex,
                                     type, newValue)
                  EXCEPT !.ev.access =
                        [NoAccess EXCEPT !.pageMode = pageMode,
                                         !.intIndex = intIndex,
                                         !.type = type,
                                         !.newValue = newValue]])

WriteCLICCtl == WriteCLICByte("clicintctl", CtlBytes)

WriteCLICMode == WriteCLICByte("clicintattr", CtlAttrs)

NextCtl ==
    \/ WriteCLICCtl
    \/ WriteCLICMode

SpecCtl == InitCtl /\ [][NextCtl]_vars

----------------------------------------------------------------------------
(* THE CLUSTER: the root processor holds cliccfg and the table of its leaf
   harts; each hart has its own interrupt pages in the CLIC of the root.  In
   this specification riscv is the root and ev names the write made; every
   leaf carries the observation of what the write did to it. *)

\* number of leaf harts of the cluster
NumHarts == 2

Harts == 1..NumHarts

\* a leaf as the write finds it: its observation is fresh
Leaf(root, index, op) ==
    With(Strip(root.clic.harts[index]),
         FreshEv(op, root.clic.harts[index].ev.attrPage))

\* cliccfgW re-arbitrating the first leaf only
cliccfgWRoot_FirstLeaf(root, newValue) ==
    LET written == cliccfgW(Leaf(root, 1, "cliccfg"), newValue)
        new     == written.clic.cliccfg
    IN  [root EXCEPT
            !.clic.cliccfg = new,
            !.clic.harts =
                [i \in Harts |->
                    IF i = 1 THEN written
                    ELSE [Leaf(root, i, "cliccfg") EXCEPT
                             !.clic.cliccfg = new]]]

\* cliccfgW on the root: the register every leaf reads is updated, and
\* refreshCCLICInterruptAll runs riscvTestInterrupt on each leaf if it changed
cliccfgWRoot(root, newValue) ==
    LET leaves == [i \in Harts |-> cliccfgW(Leaf(root, i, "cliccfg"), newValue)]
    IN  [root EXCEPT !.clic.cliccfg = leaves[1].clic.cliccfg,
                     !.clic.harts = leaves]

\* writeCLICInterrupt at an offset in the pages of leaf index: getCLICHart
\* picks the leaf the write acts on
writeCLICInterruptRoot(root, index, pageMode, intIndex, type, newValue) ==
    [root EXCEPT
        !.clic.harts =
            [i \in Harts |->
                IF i = index
                THEN writeCLICInterrupt(Leaf(root, i, "clicwrite"), pageMode,
                                        intIndex, type, newValue)
                ELSE Leaf(root, i, "clicwrite")]]

\* the leaves: programmed M/S/U harts with two CLIC interrupts
SetupSMP == SetupCLIC({IntSeq[1], IntSeq[NumInts]})

\* the modes the leaves are running in
SMPModes == [Harts -> {RISCV_MODE_MACHINE, RISCV_MODE_USER}]

InitSMP ==
    \E modes \in SMPModes :
        /\ riscv =
             [configInfo |-> SetupSMP.configInfo,
              clic |-> [cliccfg |-> SetupSMP.cliccfg,
                        harts |-> [i \in Harts |->
                            With([NewHart(SetupSMP) EXCEPT !.mode = modes[i]],
                                 FreshEv("init", [n \in IntIds |->
                                                     RISCV_MODE_MACHINE]))]]]
        /\ ev = [op |-> "init", hart |-> 0, changed |-> FALSE]

\* software writes cliccfg
WriteCliccfgRoot ==
    \E newValue \in CfgInputs :
        /\ riscv' = cliccfgWRoot(riscv, newValue)
        /\ ev' = [op |-> "cliccfg", hart |-> 0,
                  changed |-> riscv'.clic.cliccfg # riscv.clic.cliccfg]

\* software sets or clears clicintip in the pages of one leaf
WriteCLICRoot ==
    \E index \in Harts, pageMode \in Modes,
       intIndex \in riscv.configInfo.implemented, newValue \in 0..1 :
        /\ riscv' = writeCLICInterruptRoot(riscv, index, pageMode, intIndex,
                                           "clicintip", newValue)
        /\ ev' = [op |-> "clicwrite", hart |-> index, changed |-> FALSE]

NextSMP ==
    \/ WriteCliccfgRoot
    \/ WriteCLICRoot

SpecSMP == InitSMP /\ [][NextSMP]_vars

----------------------------------------------------------------------------
(* THE NMI INPUT: nmi and deferint rise and fall while the hart traps,
   returns, waits for an interrupt and enters and leaves Debug Mode *)

\* the values of the configuration parameter ecode_nmi
NmiCodes == {0, 2}

\* an M/U hart that halts in Debug Mode and an M/S/U hart that jumps to
\* the debug vector
SetupsNmi == {SetupMU, SetupDbg(RVPV_1_12)}

InitNmi ==
    \E s \in SetupsNmi, ecode_nmi \in NmiCodes :
        /\ riscv = [NewHart(s) EXCEPT !.configInfo.ecode_nmi = ecode_nmi,
                                      !.dcsr.ebreakm = 1]
        /\ ev = FreshEv("init", [i \in IntIds |-> RISCV_MODE_MACHINE])

NextNmi ==
    \/ NmiPort
    \/ DeferintPort
    \/ ECALL
    \/ EBREAK
    \/ MRET
    \/ DRET
    \/ WFI
    \/ SetDM

SpecNmi == InitNmi /\ [][NextNmi]_vars

----------------------------------------------------------------------------
(* SINGLE STEP: every instruction sets the step breakpoint before it
   executes, the step timer expires once that instruction is done, and the
   debugger writes dcsr.step *)

SetupsStep == {SetupMU, SetupDbg(RVPV_1_12)}

InitStep ==
    \E s \in SetupsStep, step \in 0..1 :
        /\ riscv = [NewHart(s) EXCEPT !.dcsr.step = step]
        /\ ev = FreshEv("init", [i \in IntIds |-> RISCV_MODE_MACHINE])

\* the translated code of an instruction: riscvSetStepBreakpoint, then the
\* instruction itself; no instruction starts before an expired timer has
\* been served
Stepped(op, instruction(_)) ==
    /\ canExecute
    /\ ~riscv.stepTimer
    /\ Apply(instruction(riscvSetStepBreakpoint(Begin(op))))

StepECALL == Stepped("ecall", riscvECALL)

StepEBREAK == Stepped("ebreak", riscvEBREAK)

StepMRET ==
    /\ getCurrentMode(riscv) = RISCV_MODE_MACHINE
    /\ Stepped("mret", riscvMRET)

StepDRET == Stepped("dret", riscvDRET)

\* the step timer expires: the simulator calls riscvStepExcept
StepTimer ==
    /\ riscv.stepTimer
    /\ Apply(riscvStepExcept(
                 [Begin("steptimer") EXCEPT !.stepTimer = FALSE]))

\* the debugger writes dcsr.step through the register interface
DcsrStepWrite ==
    \E step \in 0..1 :
        /\ riscv.dcsr.step # step
        /\ Apply([Begin("dcsrwrite") EXCEPT !.dcsr.step = step])

NextStep ==
    \/ StepECALL
    \/ StepEBREAK
    \/ StepMRET
    \/ StepDRET
    \/ StepTimer
    \/ DcsrStepWrite
    \/ SetDM

SpecStep == InitStep /\ [][NextStep]_vars

----------------------------------------------------------------------------
(* PROPERTIES OF TRAP DELIVERY *)

\* the step delivered a trap: ev'.trap describes the last TARGET_MODE_X made
TrapDelivered == ev'.trap.taken

\* the step delivered one trap, straight from the state before the step
SingleTrap == TrapDelivered /\ ev'.trap.depth = 1

(* C1: every trap that riscvTakeException delivers outside Debug Mode to a
   mode X leaves mstatus.xIE = 0, mstatus.xPIE = the xIE of just before the
   trap, xcause.Interrupt = isInterrupt(code) and xcause.ExceptionCode =
   ecode; a trap to S leaves mstatus.SPP, and a trap to M mstatus.MPP, equal
   to the mode the hart was in before the trap. *)
C1_TrapWritesTargetCsrs ==
    [][TrapDelivered =>
        LET t == ev'.trap
            X == t.modeX
        IN  /\ riscv'.mstatus.IE[X] = 0
            /\ riscv'.mstatus.PIE[X] = t.preIE
            /\ SingleTrap => /\ t.preIE = riscv.mstatus.IE[X]
                             /\ t.modeY = getCurrentMode(riscv)
            /\ riscv'.cause[X].Interrupt =
                   (IF isInterrupt(t.exception) THEN 1 ELSE 0)
            /\ riscv'.cause[X].ExceptionCode = getExceptionCode(t.exception)
            /\ X = RISCV_MODE_SUPERVISOR => riscv'.mstatus.SPP = t.modeY
            /\ X = RISCV_MODE_MACHINE => riscv'.mstatus.MPP = t.modeY]_vars

\* the step delivered a synchronous exception
SyncTrapDelivered == TrapDelivered /\ ~isInterrupt(ev'.trap.exception)

(* C2 as stated: a synchronous exception of some code, raised in mode Y, goes
   to S if and only if medeleg[code] is set, sedeleg[code] is clear and
   Y <= S; it goes to M when medeleg[code] is clear; it never goes below Y. *)
C2_TargetSIffNotDelegatedOn ==
    [][SyncTrapDelivered =>
        LET code == getExceptionCode(ev'.trap.exception)
            X    == ev'.trap.modeX
            Y    == ev'.trap.modeY
        IN  /\ X = RISCV_MODE_SUPERVISOR
                   <=> /\ code \in riscv.medeleg
                       /\ code \notin riscv.sedeleg
                       /\ Y <= RISCV_MODE_SUPERVISOR
            /\ code \notin riscv.medeleg => X = RISCV_MODE_MACHINE
            /\ X >= Y]_vars

(* C2 amended: a synchronous exception raised in mode Y goes to S if and only
   if medeleg[code] is set, Y <= S, and sedeleg[code] is clear or Y = S (an
   exception delegated on to U is still taken in S when raised in S); it goes
   to M if and only if medeleg[code] is clear or Y = M; it never goes below
   Y. *)
C2_SyncTargetMode ==
    [][SyncTrapDelivered =>
        LET code == getExceptionCode(ev'.trap.exception)
            X    == ev'.trap.modeX
            Y    == ev'.trap.modeY
        IN  /\ SingleTrap => Y = getCurrentMode(riscv)
            /\ X = getCurrentMode(riscv')
            /\ X = RISCV_MODE_SUPERVISOR
                   <=> /\ code \in riscv.medeleg
                       /\ Y <= RISCV_MODE_SUPERVISOR
                       /\ code \notin riscv.sedeleg \/ Y = RISCV_MODE_SUPERVISOR
            /\ X = RISCV_MODE_MACHINE
                   <=> code \notin riscv.medeleg \/ Y = RISCV_MODE_MACHINE
            /\ X >= Y]_vars

\* an exception delegated on to U was raised in S and taken in S
C2_Witness ==
    /\ ev.trap.taken
    /\ ~isInterrupt(ev.trap.exception)
    /\ ev.trap.modeX = RISCV_MODE_SUPERVISOR
    /\ ev.trap.modeY = RISCV_MODE_SUPERVISOR
    /\ getExceptionCode(ev.trap.exception) \in riscv.medeleg \cap riscv.sedeleg

(* C3: a trap never lowers privilege: whatever operations came before, the
   mode after a delivery by riscvTakeException (synchronous exception, basic
   interrupt or CLIC interrupt) is at least the mode just before it. *)
C3_TrapNeverLowersPrivilege ==
    [][TrapDelivered =>
        /\ ev'.trap.modeX >= ev'.trap.modeY
        /\ SingleTrap => getCurrentMode(riscv') >= getCurrentMode(riscv)]_vars

----------------------------------------------------------------------------
(* PROPERTIES OF DEBUG MODE *)

\* the step is a change of an interrupt input: a standard or local interrupt
\* port (which is also the CLIC input of that line) or the nmi port
InterruptInputChanged == ev'.op \in {"interrupt", "nmi"}

(* C4: while the hart is in Debug Mode no change of an externally driven
   interrupt input (interrupt port, CLIC input, nmi) takes a trap or an NMI,
   and mcause, mepc and mtval are left as they were; nor does the fetch gate
   take an interrupt while the hart stays in Debug Mode. *)
C4_NoTrapInDebugMode ==
    [][inDebugMode(riscv) =>
        /\ ~ev'.trap.taken
        /\ ~ev'.nmi
        /\ InterruptInputChanged =>
              /\ inDebugMode(riscv')
              /\ getCurrentMode(riscv') = getCurrentMode(riscv)
              /\ getPC(riscv') = getPC(riscv)
              /\ riscv'.cause[RISCV_MODE_MACHINE] = riscv.cause[RISCV_MODE_MACHINE]
              /\ riscv'.epc[RISCV_MODE_MACHINE] = riscv.epc[RISCV_MODE_MACHINE]
              /\ riscv'.tval[RISCV_MODE_MACHINE] = riscv.tval[RISCV_MODE_MACHINE]]_vars

\* nmi rose while the hart was in Debug Mode with an interrupt line high
C4_Witness ==
    /\ inDebugMode(riscv)
    /\ ev.op = "nmi"
    /\ riscv.netValue.nmi
    /\ riscv.ip # {}
    /\ riscv.mstatus.IE[RISCV_MODE_MACHINE] = 1

----------------------------------------------------------------------------
(* PROPERTIES OF INTERRUPT SELECTION *)

\* the fetch gate took the selected interrupt in this step
InterruptTaken == ev'.interrupt # RV_NO_INT

\* deferint fell in this step
DeferintFell == riscv.netValue.deferint /\ ~riscv'.netValue.deferint

(* C5: once deferint is high the fetch gate takes no interrupt until it
   falls; when it falls with an interrupt still selected in pendEnab a
   synchronous interrupt is scheduled and the selection is kept, and the
   interrupt is then delivered with the id, target privilege, level and
   isCLIC flag it was selected with. *)
C5_DeferredInterruptKeepsIdentity ==
    [][/\ riscv.netValue.deferint /\ ~DeferintFell => ~InterruptTaken
       /\ DeferintFell /\ riscv.pendEnab.id # RV_NO_INT =>
              /\ ev'.sched
              /\ riscv'.pendEnab = riscv.pendEnab
       /\ InterruptTaken =>
              /\ ev'.interrupt = riscv.pendEnab.id
              /\ SingleTrap =>
                    /\ ev'.trap.exception = intToException(riscv.pendEnab.id)
                    /\ ev'.trap.modeX = riscv.pendEnab.priv
                    /\ getCurrentMode(riscv') = riscv.pendEnab.priv
                    /\ riscv'.mintstatus[ev'.trap.modeX] = riscv.pendEnab.level
                    /\ ev'.trap.isCLIC = riscv.pendEnab.isCLIC]_vars

\* the mode a basic interrupt is delegated to by mideleg and sideleg
delegatedMode(h, id) ==
    IF id \notin h.mideleg THEN RISCV_MODE_MACHINE
    ELSE IF id \notin h.sideleg THEN RISCV_MODE_SUPERVISOR
    ELSE RISCV_MODE_USER

\* an interrupt for mode X may be taken now: the hart runs below X, or in X
\* with mstatus.xIE set and, for CLIC, a level above both thresholds
allowedNow(h, X, isCLIC, level) ==
    \/ getCurrentMode(h) < X
    \/ /\ getCurrentMode(h) = X
       /\ h.mstatus.IE[X] = 1
       /\ isCLIC => level > h.mintstatus[X] /\ level > h.intthresh[X]

(* C6: in every reachable state, if pendEnab.id is not NONE then the
   interrupt it names is pending, enabled, and allowed by the current
   privilege mode and mstatus.xIE (for CLIC also by the level filter). *)
C6_SelectedInterruptIsDeliverable ==
    riscv.pendEnab.id # RV_NO_INT =>
        LET p == riscv.pendEnab
        IN  IF p.isCLIC
            THEN /\ getCLICInterruptPending(riscv, p.id)
                 /\ getCLICInterruptEnable(riscv, p.id)
                 /\ allowedNow(riscv, p.priv, TRUE, p.level)
            ELSE /\ p.id \in getPendingBasic(riscv)
                 /\ allowedNow(riscv, delegatedMode(riscv, p.id), FALSE, 0)

----------------------------------------------------------------------------
(* PROPERTIES OF EXCEPTION RETURN *)

\* the step executed the return instruction of mode X outside Debug Mode
XretExecuted(X) ==
    /\ ~inDebugMode(riscv)
    /\ ev'.op \in {"mret", "sret", "uret"}
    /\ ev'.eret = X

(* C7: xret executed outside Debug Mode sets mstatus.xIE to the previous
   mstatus.xPIE and mstatus.xPIE to 1, and mret / sret set MPP / SPP to the
   lowest implemented mode; so after mret followed by mret MPP is the lowest
   implemented mode and MPIE = 1, and sret with SPP = U and SPIE = 1 ends in
   U at sepc with SIE = 1, SPIE = 1 and SPP = U. *)
C7_XretRestoresInterruptEnable ==
    [][/\ \A X \in Modes :
              XretExecuted(X) =>
                  /\ riscv'.mstatus.IE[X] = riscv.mstatus.PIE[X]
                  /\ riscv'.mstatus.PIE[X] = 1
       /\ XretExecuted(RISCV_MODE_MACHINE) =>
              riscv'.mstatus.MPP = riscvGetMinMode(riscv)
       /\ XretExecuted(RISCV_MODE_SUPERVISOR) =>
              riscv'.mstatus.SPP = riscvGetMinMode(riscv)
       /\ ev.op = "mret" /\ ev'.op = "mret" =>
              /\ XretExecuted(RISCV_MODE_MACHINE)
              /\ riscv'.mstatus.MPP = riscvGetMinMode(riscv)
              /\ riscv'.mstatus.PIE[RISCV_MODE_MACHINE] = 1
       /\ /\ XretExecuted(RISCV_MODE_SUPERVISOR)
          /\ riscv.mstatus.SPP = RISCV_MODE_USER
          /\ riscv.mstatus.PIE[RISCV_MODE_SUPERVISOR] = 1
          => /\ getCurrentMode(riscv') = RISCV_MODE_USER
             /\ getPC(riscv') = riscv.epc[RISCV_MODE_SUPERVISOR]
             /\ riscv'.mstatus.IE[RISCV_MODE_SUPERVISOR] = 1
             /\ riscv'.mstatus.PIE[RISCV_MODE_SUPERVISOR] = 1
             /\ riscv'.mstatus.SPP = RISCV_MODE_USER]_vars

\* sret has returned to U at a handler's sepc, after a trap that had
\* cleared SIE
C7_Witness ==
    /\ ev.op = "sret"
    /\ ev.eret = RISCV_MODE_SUPERVISOR
    /\ ev.xPP = RISCV_MODE_USER
    /\ getCurrentMode(riscv) = RISCV_MODE_USER
    /\ getPC(riscv) = riscv.epc[RISCV_MODE_SUPERVISOR]
    /\ getPC(riscv) # 0
    /\ riscv.mstatus.IE[RISCV_MODE_SUPERVISOR] = 1
    /\ riscv.mstatus.MPP = riscvGetMinMode(riscv)

(* C8: traps and returns keep mstatus.MPP and mstatus.SPP on implemented
   modes - a trap or return writes an implemented mode, and an implemented
   xPP stays implemented - and xret never enters an unimplemented mode: mret
   / sret enter xPP when that mode is implemented and the lowest implemented
   mode otherwise. *)
C8_XppNamesImplementedMode ==
    [][/\ riscvHasMode(riscv, riscv.mstatus.MPP)
              => riscvHasMode(riscv', riscv'.mstatus.MPP)
       /\ riscvHasMode(riscv, riscv.mstatus.SPP)
              => riscvHasMode(riscv', riscv'.mstatus.SPP)
       /\ TrapDelivered /\ ev'.trap.modeX = RISCV_MODE_MACHINE
              => riscvHasMode(riscv', riscv'.mstatus.MPP)
       /\ TrapDelivered /\ ev'.trap.modeX = RISCV_MODE_SUPERVISOR
              => riscvHasMode(riscv', riscv'.mstatus.SPP)
       /\ XretExecuted(RISCV_MODE_MACHINE) =>
              /\ riscvHasMode(riscv', riscv'.mstatus.MPP)
              /\ getCurrentMode(riscv') =
                     IF riscvHasMode(riscv, riscv.mstatus.MPP)
                     THEN riscv.mstatus.MPP ELSE riscvGetMinMode(riscv)
       /\ XretExecuted(RISCV_MODE_SUPERVISOR) =>
              /\ riscvHasMode(riscv', riscv'.mstatus.SPP)
              /\ getCurrentMode(riscv') =
                     IF riscvHasMode(riscv, riscv.mstatus.SPP)
                     THEN riscv.mstatus.SPP ELSE riscvGetMinMode(riscv)
       /\ riscvHasMode(riscv', getCurrentMode(riscv'))]_vars

\* mret found an unimplemented mode in MPP and entered the lowest mode
C8_Witness ==
    /\ ev.op = "mret"
    /\ ev.eret = RISCV_MODE_MACHINE
    /\ ~riscvHasMode(riscv, ev.xPP)
    /\ getCurrentMode(riscv) = riscvGetMinMode(riscv)
    /\ riscv.mstatus.MPP = riscvGetMinMode(riscv)

----------------------------------------------------------------------------
(* PROPERTIES OF THE CLIC REGISTER FILE *)

\* the stored clicintattr byte of every interrupt
storedAttr(h) == [i \in DOMAIN h.clic.intState |-> getCLICInterruptAttr(h, i)]

\* the step is the write of newValue to clicintattr of intIndex through the
\* page of pageMode
AttrWritten(pageMode, intIndex, newValue) ==
    /\ ev'.op = "clicattr"
    /\ Apply(writeCLICInterrupt(Begin("clicattr"), pageMode, intIndex,
                                "clicintattr", newValue))

(* C9 as stated: a clicintattr write through the page of mode P whose mode
   field is above P is a no-op: the stored clicintattr (mode, trig, shv) is
   unchanged and nothing is re-arbitrated. *)
C9_AttrWriteAbovePageIsNoOp ==
    [][ev'.op = "clicattr" /\ ev'.attrAbove =>
          /\ storedAttr(riscv') = storedAttr(riscv)
          /\ ~ev'.tested]_vars

(* C9 amended: a clicintattr write through the page of mode P whose mode
   field is above P is dropped when the interrupt is not visible through
   that page; otherwise it stores the mode clamped to P together with the
   written trig and the written shv (0 when cliccfg.nvbits = 0), leaves the
   other interrupts alone, and re-arbitrates exactly when the stored byte
   changes. *)
C9_AttrWriteAbovePageClamps ==
    [][\A pageMode \in Modes, intIndex \in riscv.configInfo.implemented,
          newValue \in AttrInputs :
          attr_mode(newValue) > pageMode
              /\ AttrWritten(pageMode, intIndex, newValue) =>
              LET old == getCLICInterruptAttr(riscv, intIndex)
                  new == getCLICInterruptAttr(riscv', intIndex)
              IN  /\ \A i \in DOMAIN riscv.clic.intState \ {intIndex} :
                         storedAttr(riscv')[i] = storedAttr(riscv)[i]
                  /\ ev'.tested <=> new # old
                  /\ IF getCLICInterruptMode(riscv, intIndex) <= pageMode
                     THEN /\ ev'.attrAbove
                          /\ attr_mode(new) = pageMode
                          /\ attr_trig(new) = attr_trig(newValue)
                          /\ attr_shv(new) =
                                 IF riscv.clic.cliccfg.nvbits = 0 THEN 0
                                 ELSE attr_shv(newValue)
                     ELSE new = old /\ ~ev'.attrAbove]_vars

\* a write with a mode field above its page has changed the stored byte,
\* raising the interrupt's mode to the page's, and was re-arbitrated
C9_Witness ==
    /\ ev.op = "clicattr"
    /\ ev.attrAbove
    /\ ev.tested
    /\ \E i \in riscv.configInfo.implemented :
          /\ ev.attrPage[i] = RISCV_MODE_SUPERVISOR
          /\ attr_mode(getCLICInterruptAttr(riscv, i)) = RISCV_MODE_SUPERVISOR
          /\ attr_trig(getCLICInterruptAttr(riscv, i)) = 1

(* C10: after any sequence of CLIC register writes the clicintattr.mode
   stored for an interrupt is at most the mode of the page through which it
   was last written (M at allocation), and is never the H encoding. *)
C10_StoredModeWithinPage ==
    \A i \in DOMAIN riscv.clic.intState :
        /\ attr_mode(getCLICInterruptAttr(riscv, i)) <= ev.attrPage[i]
        /\ attr_mode(getCLICInterruptAttr(riscv, i)) # RISCV_MODE_HYPERVISOR
        /\ getCLICInterruptMode(riscv, i) # RISCV_MODE_HYPERVISOR

\* a write asking for M through the S page has been stored with mode S
C10_Witness ==
    /\ ev.op = "clicattr"
    /\ ev.attrAbove
    /\ \E i \in riscv.configInfo.implemented :
          /\ ev.attrPage[i] < RISCV_MODE_MACHINE
          /\ attr_mode(getCLICInterruptAttr(riscv, i)) = ev.attrPage[i]

----------------------------------------------------------------------------
(* PROPERTIES OF THE CLIC PAGES AND OF THE PENDING-AND-ENABLED MASK *)

\* the access of the step is to an implemented interrupt whose target mode,
\* before the step, is not above the mode of the page
pageAccessHonoured ==
    /\ ev'.access.intIndex \in riscv.configInfo.implemented
    /\ getCLICInterruptMode(riscv, ev'.access.intIndex) <= ev'.access.pageMode

\* the value an honoured write of newValue leaves in the field it addresses
\* agrees with the byte written
writtenFieldStored ==
    LET a      == ev'.access
        stored == riscv'.clic.intState[a.intIndex][a.type]
    IN  CASE a.type = "clicintip"   -> stored = a.newValue % 2
          [] a.type = "clicintie"   -> stored = a.newValue % 2
          [] a.type = "clicintattr" -> attr_trig(stored) = attr_trig(a.newValue)
          [] a.type = "clicintctl"  ->
                stored = (a.newValue - (a.newValue % (getCLICIntCtl1Bits(riscv) + 1)))
                         + getCLICIntCtl1Bits(riscv)

(* C11: a read or write of CLIC interrupt i through the page of mode P is
   honoured if and only if i is implemented on the hart and the target mode
   of i, decoded from attr.mode and cliccfg.nmbits, is at most P: an honoured
   read returns the registers of i and an honoured write stores the byte in
   the field it addresses; any other read returns 0 and any other write
   changes nothing of the hart. *)
C11_PageAccessHonoured ==
    [][/\ ev'.op = "clicread" =>
            ev'.access.value =
                IF pageAccessHonoured
                THEN riscv.clic.intState[ev'.access.intIndex]
                ELSE NoAccess.value
       /\ ev'.op = "clicaccess" =>
            IF pageAccessHonoured THEN writtenFieldStored
            ELSE riscv' = riscv]_vars

\* a write of clicintie through a page below the target mode of an
\* implemented interrupt was dropped, though it named another value
C11_Witness ==
    /\ ev.op = "clicaccess"
    /\ ev.access.type = "clicintie"
    /\ ev.access.intIndex \in riscv.configInfo.implemented
    /\ getCLICInterruptMode(riscv, ev.access.intIndex) > ev.access.pageMode
    /\ riscv.clic.intState[ev.access.intIndex]["clicintie"]
           # ev.access.newValue % 2

(* C13: bit i of clic.ipe is set exactly when clicintip and clicintie of
   interrupt i are both set, whatever writes, input changes and acknowledges
   came before, and so the clic.ipe a restore leaves is the one recomputed
   from the restored intState. *)
C13_IpeIsPendingAndEnabled ==
    /\ riscv.clic.ipe \subseteq DOMAIN riscv.clic.intState
    /\ \A i \in DOMAIN riscv.clic.intState :
          i \in riscv.clic.ipe <=>
              /\ riscv.clic.intState[i]["clicintip"] # 0
              /\ riscv.clic.intState[i]["clicintie"] # 0
    /\ ev.op = "restore" =>
          riscv.clic.ipe = refreshCLICIPE(riscv).clic.ipe

\* a restore brought back an interrupt that is pending and enabled and one
\* that is not
C13_Witness ==
    /\ ev.op = "restore"
    /\ riscv.clic.ipe # {}
    /\ riscv.clic.ipe # DOMAIN riscv.clic.intState

----------------------------------------------------------------------------
(* PROPERTIES OF CLIC HARDWARE VECTORING *)

\* the fetch gate took a CLIC interrupt whose clicintattr.shv is set
SHVInterruptTaken ==
    /\ InterruptTaken
    /\ riscv.pendEnab.isCLIC
    /\ attr_shv(getCLICInterruptAttr(riscv, ev'.interrupt)) = 1

(* C12: when a CLIC SHV interrupt is delivered, clicintip of the interrupt is
   0 right after the delivery if the interrupt is edge triggered (bit 0 of
   attr.trig set), and is what it was before the delivery if the interrupt is
   level triggered. *)
C12_SHVDeliveryAcknowledges ==
    [][SHVInterruptTaken =>
        LET id == ev'.interrupt
        IN  riscv'.clic.intState[id]["clicintip"] =
                IF attr_trig(getCLICInterruptAttr(riscv, id)) % 2 = 1 THEN 0
                ELSE riscv.clic.intState[id]["clicintip"]]_vars

\* an edge-triggered SHV interrupt was delivered: its line is still high
\* and its clicintip is clear
C12_Witness ==
    /\ ev.interrupt # RV_NO_INT
    /\ ev.trap.isCLIC
    /\ attr_shv(getCLICInterruptAttr(riscv, ev.interrupt)) = 1
    /\ attr_trig(getCLICInterruptAttr(riscv, ev.interrupt)) % 2 = 1
    /\ ev.interrupt \in riscv.ip
    /\ riscv.clic.intState[ev.interrupt]["clicintip"] = 0

(* C20: when CLIC SHV interrupt n is delivered to mode X with level L and
   the read of the vector table raises no exception, the handler PC is the
   word at xtvt + (XLEN/8)*n with its low bit cleared, xcause.inhv is 0 and
   mintstatus.xil is L. *)
C20_SHVHandlerFromVectorTable ==
    [][SHVInterruptTaken /\ SingleTrap =>
        LET n       == ev'.interrupt
            X       == riscv.pendEnab.priv
            address == riscv.tvt[X] + (riscv.configInfo.XLEN \div 8) * n
        IN  /\ address \in DOMAIN riscv.mem
            /\ riscv'.PC = riscv.mem[address] - (riscv.mem[address] % 2)
            /\ riscv'.cause[X].inhv = 0
            /\ riscv'.mintstatus[X] = riscv.pendEnab.level]_vars

----------------------------------------------------------------------------
(* PROPERTIES OF THE FETCH GATE, OF RESET AND OF THE HALT REQUESTS *)

\* the step is a fetch that the simulator completes
CompletedFetch == ev'.op = "ifetch"

\* the gate's condition for delivering an interrupt, in the state before
SelectedInterrupt ==
    /\ riscv.pendEnab.id # RV_NO_INT
    /\ ~riscv.DM
    /\ ~riscv.netValue.deferint

\* the address of the fetch is not executable
FetchFaults ==
    \/ riscv.PC \in riscv.configInfo.noexec
    \/ riscv.PC + 2 \in riscv.configInfo.noexec

\* what the completed fetch did, read from the state after
GateEnteredDM(cause) == ev'.enteredDM /\ riscv'.DM /\ riscv'.dcsr.cause = cause

GateDeliveredInterrupt ==
    /\ ev'.interrupt = riscv.pendEnab.id
    /\ TrapDelivered
    /\ ev'.trap.exception = intToException(riscv.pendEnab.id)

GateTookFetchFault ==
    /\ TrapDelivered
    /\ ev'.trap.exception = riscv_E_InstructionAccessFault
    /\ ev'.interrupt = RV_NO_INT

(* C14: a completed fetch does exactly one thing, chosen in strict priority:
   with resethaltreqS latched it enters Debug Mode with cause RESETHALTREQ
   and clears the latch; otherwise with haltreq high outside Debug Mode it
   enters Debug Mode with cause HALTREQ; otherwise it delivers the selected
   interrupt (pendEnab.id present, not Debug Mode, not deferint); otherwise it
   validates the fetch address and takes the access fault if that fails.  It
   never both enters Debug Mode and takes a trap, and it reports that the
   fetch may proceed (VMI_FETCH_NONE) exactly when none of the four fired, in
   which case the hart is unchanged.  A fetch that is only probed changes
   nothing. *)
C14_FetchGatePriority ==
    [][/\ CompletedFetch =>
            /\ IF riscv.netValue.resethaltreqS
               THEN /\ GateEnteredDM("RESETHALTREQ")
                    /\ ~riscv'.netValue.resethaltreqS
                    /\ ~TrapDelivered
               ELSE IF riscv.netValue.haltreq /\ ~riscv.DM
               THEN /\ GateEnteredDM("HALTREQ")
                    /\ ~TrapDelivered
               ELSE IF SelectedInterrupt
               THEN /\ GateDeliveredInterrupt
                    /\ ~ev'.enteredDM
               ELSE IF FetchFaults
               THEN /\ GateTookFetchFault
                    /\ ~ev'.enteredDM
               ELSE /\ ~ev'.enteredDM
                    /\ ~TrapDelivered
            /\ ~(ev'.enteredDM /\ TrapDelivered)
            /\ (ev'.fetch = "NONE") = (~ev'.enteredDM /\ ~TrapDelivered)
            /\ ev'.fetch = "NONE" => riscv' = riscv
            /\ ev'.fetch # "NONE" => ev'.fetch = "EXCEPTION_COMPLETE"
       /\ ev'.op = "ifetchprobe" =>
            /\ riscv' = riscv
            /\ ev'.fetch \in {"NONE", "EXCEPTION_PENDING"}]_vars

\* a completed fetch found the latch, haltreq, a selected interrupt and a
\* non-executable address all at once, and entered Debug Mode out of reset
C14_Witness ==
    /\ ev.op = "ifetch"
    /\ ev.enteredDM
    /\ riscv.dcsr.cause = "RESETHALTREQ"
    /\ riscv.netValue.haltreq
    /\ riscv.pendEnab.id # RV_NO_INT
    /\ ~riscv.netValue.deferint
    /\ riscv.dpc \in riscv.configInfo.noexec

\* the last thing the hart did was a dret that left Debug Mode
DretLeftDM == ev.op = "dret" /\ ev.eret # -1 /\ ~riscv.DM

(* C17: haltreq is edge-triggered.  When dret has just left Debug Mode with
   haltreq still held high (it has not fallen and risen since), the fetch
   that follows does not enter Debug Mode with cause HALTREQ. *)
C17_NoReentryWhileHaltreqHeld ==
    [][DretLeftDM /\ riscv.netValue.haltreq /\ CompletedFetch =>
        ~GateEnteredDM("HALTREQ")]_vars

\* the step is the falling edge of the reset input: riscvReset runs
ResetPerformed ==
    ev'.op = "reset" /\ riscv.netValue.reset /\ ~riscv'.netValue.reset

\* the step entered Debug Mode out of reset
EnteredDMOutOfReset ==
    ~riscv.DM /\ riscv'.DM /\ riscv'.dcsr.cause = "RESETHALTREQ"

(* C18: resethaltreq is sampled only at reset.  A change of the resethaltreq
   input changes nothing but the recorded input value.  A reset leaves Debug
   Mode and latches the value that resethaltreq has at that moment; the latch
   is not set by anything else and, once set, is cleared only by a completed
   fetch or by another reset, and no instruction executes while it is set.
   A completed fetch enters Debug Mode with cause RESETHALTREQ if and only if
   the latch is set, and clears it; nothing else enters Debug Mode with that
   cause.  Hence the first completed fetch after a reset enters Debug Mode
   out of reset exactly when resethaltreq was high at the reset, and at most
   once per reset. *)
C18_ResethaltreqSampledAtReset ==
    [][/\ ev'.op = "resethaltreq" =>
            riscv' = [riscv EXCEPT !.netValue.resethaltreq = ~@]
       /\ ResetPerformed =>
            /\ riscv'.netValue.resethaltreqS = riscv.netValue.resethaltreq
            /\ ~riscv'.DM
            /\ ~ev'.enteredDM
            /\ riscv'.PC = riscv.configInfo.reset_address
       /\ (~riscv.netValue.resethaltreqS /\ riscv'.netValue.resethaltreqS) =>
            ResetPerformed
       /\ (riscv.netValue.resethaltreqS /\ ~riscv'.netValue.resethaltreqS) =>
            CompletedFetch \/ ResetPerformed
       /\ (riscv.netValue.resethaltreqS /\ ~CompletedFetch
             /\ ~ResetPerformed) =>
            /\ riscv'.PC = riscv.PC
            /\ riscv'.DM = riscv.DM
            /\ riscv'.mode = riscv.mode
       /\ CompletedFetch =>
            /\ EnteredDMOutOfReset = riscv.netValue.resethaltreqS
            /\ ~riscv'.netValue.resethaltreqS
       /\ EnteredDMOutOfReset => CompletedFetch]_vars

\* resethaltreq was high at the reset and has fallen since: the first
\* completed fetch after the reset still enters Debug Mode out of reset
C18_Witness ==
    /\ ev.op = "ifetch"
    /\ ev.enteredDM
    /\ riscv.dcsr.cause = "RESETHALTREQ"
    /\ riscv.dpc = riscv.configInfo.reset_address
    /\ ~riscv.netValue.resethaltreq
    /\ ~riscv.netValue.resethaltreqS

----------------------------------------------------------------------------
(* PROPERTIES OF DRET, WFI AND THE EXCEPTION RETURNS *)

\* the step executed dret with the hart outside Debug Mode
DretOutsideDM == ev'.op = "dret" /\ ~riscv.DM

(* C19: dret executed outside Debug Mode takes one Illegal Instruction trap:
   xtval of the target mode is the instruction pattern when tval_ii_code is
   set and tval_zero is clear and 0 otherwise, the hart stays outside Debug
   Mode, no return is performed, and the hart lands at the trap handler of
   the target mode, not at dpc. *)
C19_DretOutsideDMIsIllegal ==
    [][DretOutsideDM =>
        LET X == ev'.trap.modeX
        IN  /\ SingleTrap
            /\ ev'.trap.exception = riscv_E_IllegalInstruction
            /\ riscv'.cause[X].ExceptionCode = riscv_E_IllegalInstruction
            /\ riscv'.cause[X].Interrupt = 0
            /\ riscv'.tval[X] =
                   (IF riscv.configInfo.tval_ii_code
                       /\ ~riscv.configInfo.tval_zero
                    THEN riscv.configInfo.instruction ELSE 0)
            /\ ~riscv'.DM
            /\ ~ev'.enteredDM
            /\ ev'.eret = -1
            /\ riscv'.dpc = riscv.dpc
            /\ riscv'.PC = riscv.tvec[X].BASE * 4
            /\ riscv'.PC # riscv.dpc]_vars

\* dret trapped, outside Debug Mode, on a hart that reports the instruction
\* pattern in xtval
C19_Witness ==
    /\ ev.op = "dret"
    /\ ev.trap.taken
    /\ ev.trap.exception = riscv_E_IllegalInstruction
    /\ ~riscv.DM
    /\ riscv.tval[ev.trap.modeX] = riscv.configInfo.instruction
    /\ riscv.PC # riscv.dpc

\* something is pending in the given hart state: mip AND mie is not zero,
\* or the CLIC presents a candidate
SomethingPending(h) ==
    \/ h.mip \cap h.mie # {}
    \/ h.clic.sel.id # RV_NO_INT

\* the hart is halted waiting for an interrupt
HaltedInWFI(h) == "WFI" \in h.disable

(* C15: WFI halts the hart exactly when it is outside Debug Mode and nothing
   is pending, and otherwise does nothing.  Whenever the interrupt state is
   re-arbitrated on a hart halted in WFI and something is pending afterwards,
   the hart is no longer halted in WFI, whether or not an interrupt was
   selected for delivery. *)
C15_WFIHaltsUntilPending ==
    [][/\ ev'.op = "wfi" =>
            /\ HaltedInWFI(riscv') = (~riscv.DM /\ ~SomethingPending(riscv))
            /\ ~HaltedInWFI(riscv') => riscv' = riscv
            /\ HaltedInWFI(riscv') =>
                   riscv' = [riscv EXCEPT !.disable = @ \cup {"WFI"}]
       /\ (HaltedInWFI(riscv) /\ ev'.tested /\ SomethingPending(riscv')) =>
            ~HaltedInWFI(riscv')]_vars

\* an interrupt woke the hart from WFI although it is masked: it is pending
\* and nothing is selected for delivery
C15_Witness ==
    /\ ev.op = "interrupt"
    /\ ev.tested
    /\ SomethingPending(riscv)
    /\ riscv.pendEnab.id = RV_NO_INT
    /\ ev.restarted
    /\ ~riscv.DM
    /\ riscv.disable = {}

ReturnOps == {"mret", "sret", "uret", "dret"}

InstructionOps == ReturnOps \cup {"ecall", "ebreak", "wfi"}

\* the step performed a return: mret, sret, uret outside Debug Mode, or
\* dret in Debug Mode
ReturnPerformed == ev'.op \in ReturnOps /\ ev'.eret # -1

\* the last thing the hart did was a return
ReturnedLast == ev.op \in ReturnOps /\ ev.eret # -1

(* C16: mret, sret, uret and dret re-arbitrate before resuming.  The return
   runs riscvTestInterrupt, and the selection it leaves in pendEnab is the
   one computed from the state after the return (the mode returned to, the
   restored mstatus.xIE, the Debug Mode flag).  While an interrupt is
   selected after a return, the step that follows is never an instruction,
   and a completed fetch that follows delivers the selected interrupt, unless
   a halt request takes the gate first. *)
C16_ReturnsRearbitrate ==
    [][/\ ReturnPerformed =>
            /\ ev'.tested
            /\ riscv'.pendEnab = refreshPendingAndEnabled(riscv').pendEnab
            /\ ev'.sched = (/\ riscv'.pendEnab.id # RV_NO_INT
                            /\ ~riscv'.DM
                            /\ ~riscv'.netValue.deferint)
       /\ (ReturnedLast /\ SelectedInterrupt) =>
            /\ ev'.op \notin InstructionOps
            /\ (CompletedFetch /\ ~riscv.netValue.haltreq) =>
                   GateDeliveredInterrupt]_vars

\* mret returned to Machine mode and, by restoring mstatus.MIE, left an
\* interrupt selected for the fetch that follows
C16_Witness ==
    /\ ev.op = "mret"
    /\ ev.eret = RISCV_MODE_MACHINE
    /\ riscv.mode = RISCV_MODE_MACHINE
    /\ ~riscv.DM
    /\ riscv.pendEnab.id # RV_NO_INT
    /\ riscv.pendEnab.priv = RISCV_MODE_MACHINE

----------------------------------------------------------------------------
(* PROPERTIES OF THE RETIRED-INSTRUCTION COUNT *)

\* the codes of ecall and ebreak
CallAndBreakCodes ==
    {riscv_E_Breakpoint,
     riscv_E_EnvironmentCallFromUMode, riscv_E_EnvironmentCallFromSMode,
     riscv_E_EnvironmentCallFromHMode, riscv_E_EnvironmentCallFromMMode}

(* C21: a trap takes the trapping instruction out of the retired count by
   adding one to baseInstructions, and it does so exactly when
   mcountinhibit.IR is clear and the code is not one of a retired
   instruction.  ecall and ebreak are retired (no adjustment, so the count
   goes up by the instruction) before version 1.12 and not retired (one
   adjustment) from 1.12 on; every other exception and every interrupt is not
   retired on either version; with mcountinhibit.IR set no trap adjusts the
   count. *)
C21_RetiredCountAdjustment ==
    [][SingleTrap =>
        LET code    == ev'.trap.exception
            retired == /\ code \in CallAndBreakCodes
                       /\ riscv.configInfo.priv_version < RVPV_1_12
        IN  ev'.baseInstructions =
                (IF riscv.mcountinhibitIR \/ retired THEN 0 ELSE 1)]_vars

\* ecall trapped with mcountinhibit.IR clear on a hart older than 1.12 and
\* stayed in the retired count
C21_Witness ==
    /\ ev.op = "ecall"
    /\ ev.trap.taken
    /\ ev.trap.exception \in CallAndBreakCodes
    /\ ~riscv.mcountinhibitIR
    /\ riscv.configInfo.priv_version < RVPV_1_12
    /\ ev.baseInstructions = 0

----------------------------------------------------------------------------
(* PROPERTIES OF CLICCFG *)

\* cliccfg holds legal values
CliccfgLegal(h) ==
    /\ h.clic.cliccfg.nmbits <= h.configInfo.CLICCFGMBITS
    /\ h.clic.cliccfg.nlbits <= 8
    /\ h.clic.cliccfg.nvbits = h.configInfo.CLICSELHVEC

\* the smaller of two numbers
Least(a, b) == IF a < b THEN a ELSE b

(* C22: cliccfg always holds nmbits <= CLICCFGMBITS, nlbits <= 8 and nvbits
   = CLICSELHVEC, whatever bytes are written and across resets.  A write
   stores the written nmbits and nlbits clamped to those maxima; a reset
   stores zero in both.  A write whose clamped value is the value already
   held changes nothing and does not re-arbitrate; one that changes the
   register re-arbitrates. *)
C22_CliccfgClamped ==
    /\ CliccfgLegal(riscv)
    /\ [][/\ CliccfgLegal(riscv')
          /\ ev'.op = "cliccfg" =>
               LET b == ev'.access.newValue
               IN  /\ riscv'.clic.cliccfg.nmbits =
                          Least((b \div 32) % 4, riscv.configInfo.CLICCFGMBITS)
                   /\ riscv'.clic.cliccfg.nlbits = Least((b \div 2) % 16, 8)
                   /\ riscv'.clic.cliccfg = riscv.clic.cliccfg =>
                          riscv' = riscv /\ ~ev'.tested /\ ~ev'.sched
                   /\ riscv'.clic.cliccfg # riscv.clic.cliccfg => ev'.tested
          /\ ResetPerformed =>
               /\ riscv'.clic.cliccfg.nmbits = 0
               /\ riscv'.clic.cliccfg.nlbits = 0]_vars

\* a byte that is not the register's value was written and changed nothing,
\* because its clamped value is the value already held
C22_Witness ==
    /\ ev.op = "cliccfg"
    /\ ~ev.tested
    /\ (ev.access.newValue \div 2) % 16 > 8
    /\ (ev.access.newValue \div 32) % 4 > riscv.configInfo.CLICCFGMBITS
    /\ riscv.clic.cliccfg.nlbits = 8
    /\ riscv.clic.cliccfg.nmbits = riscv.configInfo.CLICCFGMBITS

----------------------------------------------------------------------------
(* PROPERTIES OF THE BASIC ARBITER *)

\* the fixed priority order of the standard interrupts, highest first
PriorityOrder ==
    <<INT_MExternalInterrupt, INT_MSWInterrupt, INT_MTimerInterrupt,
      INT_SExternalInterrupt, INT_SSWInterrupt, INT_STimerInterrupt,
      INT_UExternalInterrupt, INT_USWInterrupt, INT_UTimerInterrupt>>

\* i comes before j in the fixed order; a local interrupt comes after every
\* standard one
Outranks(i, j) ==
    \E k \in DOMAIN PriorityOrder :
        /\ PriorityOrder[k] = i
        /\ \A l \in 1..k : PriorityOrder[l] # j

\* the basic interrupts that are pending, enabled in mie, and not masked by
\* the effective interrupt enable of their target mode
BasicCandidates ==
    {i \in riscv.mip \cap riscv.mie :
        allowedNow(riscv, delegatedMode(riscv, i), FALSE, 0)}

(* C23: the basic arbiter selects nothing exactly when no basic interrupt is
   pending, enabled in mie and unmasked by its target mode's effective
   enable; otherwise it selects one of those, with the highest target mode
   among them and, among those of that target mode, the first in the fixed
   order MEI, MSI, MTI, SEI, SSI, STI, UEI, USI, UTI, locals last. *)
C23_BasicArbiterOrder ==
    LET p == riscv.pendEnab
    IN  /\ (p.id = RV_NO_INT) = (BasicCandidates = {})
        /\ p.id # RV_NO_INT =>
             /\ ~p.isCLIC
             /\ p.id \in BasicCandidates
             /\ p.priv = delegatedMode(riscv, p.id)
             /\ \A j \in BasicCandidates \ {p.id} :
                    \/ delegatedMode(riscv, j) < p.priv
                    \/ /\ delegatedMode(riscv, j) = p.priv
                       /\ Outranks(p.id, j)

\* the selected interrupt has the highest target mode although another
\* candidate comes before it in the fixed order
C23_Witness ==
    /\ ev.op = "interrupt"
    /\ riscv.pendEnab.id # RV_NO_INT
    /\ \E j \in BasicCandidates :
           /\ Outranks(j, riscv.pendEnab.id)
           /\ delegatedMode(riscv, j) < riscv.pendEnab.priv
    /\ \E j \in BasicCandidates :
           /\ Outranks(riscv.pendEnab.id, j)
           /\ delegatedMode(riscv, j) = riscv.pendEnab.priv

\* the effective interrupt enable of mode X
EffectiveIE(X) ==
    IF riscv.mode < X THEN 1
    ELSE IF riscv.mode > X THEN 0
    ELSE riscv.mstatus.IE[X]

(* C24: for the basic arbiter the effective enable of mode X is 1 below X, 0
   above X and mstatus.xIE in X.  An interrupt is selected exactly when some
   pending interrupt enabled in mie has a target mode whose effective enable
   is 1; the selected interrupt never has a target below the current mode,
   has mstatus.xIE set when its target is the current mode, and whenever a
   pending and enabled interrupt targets a mode above the current one an
   interrupt for a mode above the current one is selected, whatever the
   mstatus.xIE bits are. *)
C24_EffectiveInterruptEnable ==
    LET p       == riscv.pendEnab
        pending == riscv.mip \cap riscv.mie
    IN  /\ (p.id # RV_NO_INT) =
               (\E i \in pending : EffectiveIE(delegatedMode(riscv, i)) = 1)
        /\ p.id # RV_NO_INT =>
               /\ EffectiveIE(delegatedMode(riscv, p.id)) = 1
               /\ delegatedMode(riscv, p.id) >= riscv.mode
               /\ delegatedMode(riscv, p.id) = riscv.mode =>
                      riscv.mstatus.IE[riscv.mode] = 1
        /\ \A i \in pending :
               delegatedMode(riscv, i) > riscv.mode =>
                   /\ p.id # RV_NO_INT
                   /\ p.priv >= delegatedMode(riscv, i)
                   /\ p.priv > riscv.mode

\* an interrupt for a mode above the current one is selected although that
\* mode's mstatus.xIE is clear, while one for the current mode stays masked
C24_Witness ==
    /\ ev.op = "interrupt"
    /\ riscv.pendEnab.id # RV_NO_INT
    /\ riscv.pendEnab.priv > riscv.mode
    /\ riscv.mstatus.IE[riscv.pendEnab.priv] = 0
    /\ \E i \in riscv.mip \cap riscv.mie :
           /\ delegatedMode(riscv, i) = riscv.mode
           /\ riscv.mstatus.IE[riscv.mode] = 0
    /\ \E i \in riscv.mip \cap riscv.mie :
           delegatedMode(riscv, i) < riscv.mode

----------------------------------------------------------------------------
(* PROPERTIES OF THE CLIC ARBITER *)

\* bit k of the byte b
ByteBit(b, k) == (b \div (2^k)) % 2

\* the byte b with its n low bits forced to one
LowBitsSet(b, n) ==
    LET bit(k) == IF k < n THEN 1 ELSE ByteBit(b, k)
    IN  bit(0) + 2 * bit(1) + 4 * bit(2) + 8 * bit(3) + 16 * bit(4)
            + 32 * bit(5) + 64 * bit(6) + 128 * bit(7)

\* the rank of a CLIC interrupt: (target mode << 8) | clicintctl
CLICRank(i) ==
    256 * getCLICInterruptMode(riscv, i) + riscv.clic.intState[i].clicintctl

(* C25: clic.sel.id is NONE exactly when no bit of ipe is set.  Otherwise
   the selected interrupt has its ipe bit set, no interrupt with its ipe bit
   set has a larger rank (target mode << 8) | clicintctl, of those with the
   same rank it has the highest index, clic.sel.priv is its target mode and
   clic.sel.level is its clicintctl with the low 8 - nlbits bits forced to
   one. *)
C25_CLICArbiterOrder ==
    LET sel == riscv.clic.sel
    IN  /\ (sel.id = RV_NO_INT) = (riscv.clic.ipe = {})
        /\ sel.id # RV_NO_INT =>
             /\ sel.id \in riscv.clic.ipe
             /\ \A j \in riscv.clic.ipe :
                    \/ CLICRank(j) < CLICRank(sel.id)
                    \/ CLICRank(j) = CLICRank(sel.id) /\ j <= sel.id
             /\ sel.priv = getCLICInterruptMode(riscv, sel.id)
             /\ sel.level =
                    LowBitsSet(riscv.clic.intState[sel.id].clicintctl,
                               8 - riscv.clic.cliccfg.nlbits)

\* three interrupts have their ipe bits set: the selected one ties on rank
\* with one of lower index, outranks one of higher index, and its level
\* differs from its clicintctl
C25_Witness ==
    /\ ev.op = "clicwrite"
    /\ riscv.clic.ipe = SelLines
    /\ riscv.clic.sel.id = INT_MTimerInterrupt
    /\ CLICRank(INT_MSWInterrupt) = CLICRank(INT_MTimerInterrupt)
    /\ CLICRank(INT_SExternalInterrupt) < CLICRank(INT_MTimerInterrupt)
    /\ riscv.clic.sel.level # riscv.clic.intState[riscv.clic.sel.id].clicintctl

----------------------------------------------------------------------------
(* PRESENTATION OF THE CLIC CANDIDATE *)

\* target privilege of the basic controller's candidate, 0 when it has none
BasicCandidatePriv ==
    LET X == delegatedMode(riscv, PresBasicLine)
    IN  IF /\ PresBasicLine \in riscv.mip \cap riscv.mie
           /\ ~useCLIC(riscv, X)
           /\ allowedNow(riscv, X, FALSE, 0)
        THEN X ELSE 0

BasicCandidateExists ==
    /\ PresBasicLine \in riscv.mip \cap riscv.mie
    /\ ~useCLIC(riscv, delegatedMode(riscv, PresBasicLine))
    /\ allowedNow(riscv, delegatedMode(riscv, PresBasicLine), FALSE, 0)

CLICCandidateExists == riscv.clic.sel.id # RV_NO_INT

\* the conditions on privilege, global enable, level and threshold
CLICCandidatePasses ==
    LET sel == riscv.clic.sel
    IN  /\ sel.priv >= BasicCandidatePriv
        /\ getCurrentMode(riscv) <= sel.priv
        /\ riscv.mstatus.IE[sel.priv] = 1
        /\ \/ getCurrentMode(riscv) < sel.priv
           \/ /\ sel.level > riscv.mintstatus[sel.priv]
              /\ sel.level > riscv.intthresh[sel.priv]

CLICCandidateIsPendEnab ==
    LET sel == riscv.clic.sel
    IN  riscv.pendEnab = [id |-> sel.id, priv |-> sel.priv,
                          level |-> sel.level, isCLIC |-> TRUE]

BasicCandidateIsPendEnab ==
    riscv.pendEnab = [id |-> PresBasicLine,
                      priv |-> delegatedMode(riscv, PresBasicLine),
                      level |-> 0, isCLIC |-> FALSE]

\* C26 as stated: the CLIC candidate becomes pendEnab if and only if its
\* privilege is at least the basic candidate's, the current mode is not above
\* it, mstatus.{priv}IE is set and the hart is either below that privilege or
\* the level exceeds both mintstatus.{priv}il and {priv}intthresh.th
C26_Original ==
    CLICCandidateExists => (CLICCandidateIsPendEnab <=> CLICCandidatePasses)

\* C26, amended: the CLIC candidate becomes pendEnab if and only if the
\* target privilege takes its interrupts in CLIC mode (useCLIC{priv}) and the
\* conditions on privilege, mstatus.{priv}IE, level and threshold hold;
\* otherwise the basic candidate, if there is one, stays pendEnab, so the
\* candidate of higher privilege is kept when both can be presented
C26_CLICPresentation ==
    LET sel       == riscv.clic.sel
        presented == /\ CLICCandidateExists
                     /\ useCLIC(riscv, sel.priv)
                     /\ CLICCandidatePasses
    IN  /\ CLICCandidateExists => (CLICCandidateIsPendEnab <=> presented)
        /\ ~presented /\ BasicCandidateExists => BasicCandidateIsPendEnab
        /\ ~presented /\ ~BasicCandidateExists
               => riscv.pendEnab.id = RV_NO_INT

\* a CLIC candidate of Machine privilege displaces a basic candidate that
\* targets Supervisor mode, whatever the threshold, the hart being below
C26_Witness ==
    /\ ev.op = "interrupt"
    /\ CLICCandidateExists
    /\ PresBasicLine \in riscv.mip \cap riscv.mie
    /\ ~useCLIC(riscv, delegatedMode(riscv, PresBasicLine))
    /\ allowedNow(riscv, delegatedMode(riscv, PresBasicLine), FALSE, 0)
    /\ riscv.clic.sel.priv > delegatedMode(riscv, PresBasicLine)
    /\ riscv.clic.sel.level <= riscv.intthresh[riscv.clic.sel.priv]
    /\ CLICCandidateIsPendEnab

----------------------------------------------------------------------------
(* PROPERTIES OF THE HANDLER ADDRESS *)

\* the vector-table word at address a with its low bit cleared
TableEntry(h, a) == h.mem[a] - (h.mem[a] % 2)

\* the vector-table address of interrupt n for a trap to mode X
TableAddress(h, X, n) == h.tvt[X] + (h.configInfo.XLEN \div 8) * n

\* the external interrupt ID latched for the interrupt of the trap, 0 if none
LatchedId(h, exception) ==
    IF isExternalInterrupt(exception)
    THEN h.extInt[getExceptionCode(exception) - INT_UExternalInterrupt]
    ELSE 0

(* C27: a trap to mode X enters the handler at xtvec.BASE<<2 for a
   synchronous exception and for an interrupt in Direct mode, at that base
   plus 4 times the interrupt number for an interrupt in Vectored mode, at
   the base with its low 6 bits cleared for a CLIC interrupt without
   hardware vectoring, and at an entry of the vector table (the entry of the
   interrupt number when no external ID is latched) for a CLIC interrupt with
   hardware vectoring. *)
C27_HandlerAddress ==
    [][SingleTrap =>
        LET exception == ev'.trap.exception
            X         == ev'.trap.modeX
            ecode     == getExceptionCode(exception)
            base      == riscv.tvec[X].BASE * 4
            MODE      == riscv.tvec[X].MODE
        IN  /\ riscv'.mode = X
            /\ IF ~isInterrupt(exception) \/ MODE = riscv_int_Direct
               THEN riscv'.PC = base
               ELSE IF MODE = riscv_int_Vectored
               THEN riscv'.PC = base + 4 * ecode
               ELSE IF attr_shv(getCLICInterruptAttr(riscv, ecode)) = 0
               THEN riscv'.PC = base - (base % 64)
               ELSE /\ \E a \in DOMAIN riscv.mem :
                          riscv'.PC = TableEntry(riscv, a)
                    /\ LatchedId(riscv, exception) = 0
                          => riscv'.PC =
                                TableEntry(riscv, TableAddress(riscv, X, ecode))
       ]_vars

\* the machine external interrupt was delivered in Vectored mode: the hart
\* is in Machine mode at mtvec.BASE<<2 plus 44
C27_Witness ==
    /\ ev.trap.taken
    /\ ev.trap.exception = intToException(INT_MExternalInterrupt)
    /\ riscv.tvec[RISCV_MODE_MACHINE].MODE = riscv_int_Vectored
    /\ riscv.mode = RISCV_MODE_MACHINE
    /\ riscv.PC = riscv.tvec[RISCV_MODE_MACHINE].BASE * 4 + 44

\* an interrupt with an external interrupt ID latched was delivered
OverriddenInterruptTaken ==
    /\ InterruptTaken
    /\ LatchedId(riscv, intToException(ev'.interrupt)) # 0

\* the handler address the interrupt number n selects for a trap to mode X:
\* none when the vector-table entry of n cannot be read
HandlerOfNumber(n, X) ==
    LET base == riscv.tvec[X].BASE * 4
        MODE == riscv.tvec[X].MODE
    IN  IF MODE = riscv_int_Direct THEN {base}
        ELSE IF MODE = riscv_int_Vectored THEN {base + 4 * n}
        ELSE IF attr_shv(getCLICInterruptAttr(riscv, n)) = 0
        THEN {base - (base % 64)}
        ELSE IF TableAddress(riscv, X, n) \in DOMAIN riscv.mem
        THEN {TableEntry(riscv, TableAddress(riscv, X, n))}
        ELSE {}

\* the interrupt number n was acknowledged by a hardware-vectored delivery
AcknowledgedByNumber(n) ==
    riscv.pendEnab.isCLIC /\ attr_shv(getCLICInterruptAttr(riscv, n)) = 1
        => riscv'.clic.intState[n]["clicintip"] =
               IF attr_trig(getCLICInterruptAttr(riscv, n)) % 2 = 1 THEN 0
               ELSE riscv.clic.intState[n]["clicintip"]

(* C28: when an interrupt is delivered with a non-zero external interrupt ID
   latched, the ID replaces the interrupt number in xcause.ExceptionCode
   only: the handler address (the Vectored offset or the CLIC vector-table
   index) and the CLIC acknowledge are those of the interrupt number, and
   the trap is nested exactly when the table entry of the interrupt number
   cannot be read. *)
C28_OverrideOnlyInCause ==
    [][OverriddenInterruptTaken =>
        LET n == ev'.interrupt
            X == trapModeX(riscv, TRUE, n)
        IN  /\ AcknowledgedByNumber(n)
            /\ IF HandlerOfNumber(n, X) = {}
               THEN ev'.trap.depth = 2
               ELSE /\ ev'.trap.depth = 1
                    /\ riscv'.PC \in HandlerOfNumber(n, X)
                    /\ riscv'.cause[X].ExceptionCode =
                           LatchedId(riscv, intToException(n))]_vars

\* the delivery of a hardware-vectored interrupt ended in a nested exception
NestedTrapTaken == InterruptTaken /\ ev'.trap.depth = 2

(* C29: when the read of the vector table raises an exception during the
   delivery of a CLIC hardware-vectored interrupt, the secondary exception
   replaces the interrupt: hart.exception is the secondary, non-interrupt
   code, the CSRs of the secondary trap's target mode describe it (cause,
   epc, the faulting table address in tval, previous mode and previous
   enable), the hart is in that mode at the secondary handler, and the trap
   observers are notified once. *)
C29_NestedTableFaultReplaces ==
    [][NestedTrapTaken =>
        LET n       == ev'.interrupt
            X       == riscv.pendEnab.priv
            address == TableAddress(riscv, X, n)
            X2      == getExceptionModeX([riscv EXCEPT !.mode = X],
                                         riscv_E_LoadAccessFault)
        IN  /\ riscv'.exception = riscv_E_LoadAccessFault
            /\ ~isInterrupt(riscv'.exception)
            /\ ev'.trap.modeX = X2
            /\ riscv'.mode = X2
            /\ riscv'.cause[X2].Interrupt = 0
            /\ riscv'.cause[X2].ExceptionCode = riscv_E_LoadAccessFault
            /\ riscv'.epc[X2] = epcMasked(riscv, getEPC(riscv))
            /\ LatchedId(riscv, intToException(n)) = 0
                  => riscv'.tval[X2] = address
            /\ riscv'.mstatus.IE[X2] = 0
            /\ riscv'.mstatus.PIE[X2] = IF X2 = X THEN 0
                                        ELSE riscv.mstatus.IE[X2]
            /\ X2 = RISCV_MODE_MACHINE => riscv'.mstatus.MPP = X
            /\ riscv'.PC = riscv.tvec[X2].BASE * 4
            /\ ev'.notified = 1]_vars

\* the S-mode timer interrupt was being delivered when the table read
\* faulted: the hart is in Machine mode with the Load Access Fault in mcause
C29_Witness ==
    /\ ev.interrupt = INT_MTimerInterrupt
    /\ ev.trap.depth = 2
    /\ riscv.exception = riscv_E_LoadAccessFault
    /\ riscv.mode = RISCV_MODE_MACHINE
    /\ riscv.mstatus.MPP = RISCV_MODE_SUPERVISOR
    /\ riscv.cause[RISCV_MODE_SUPERVISOR].Interrupt = 1
    /\ riscv.PC = riscv.tvec[RISCV_MODE_MACHINE].BASE * 4

----------------------------------------------------------------------------
(* PROPERTIES OF THE INTERRUPT LEVEL *)

(* C30: a trap to mode X sets mintstatus.xil to the level of the selected
   interrupt when it delivers an interrupt, to 0 when it takes a synchronous
   exception from another mode, and leaves it as it is when it takes a
   synchronous exception from mode X itself; xcause.pil gets the xil of
   before the trap, the levels of the other modes are untouched, and xret
   with xtvec in CLIC mode sets mintstatus.xil to xcause.pil. *)
C30_InterruptLevelStack ==
    [][/\ SingleTrap =>
            LET X     == ev'.trap.modeX
                isInt == isInterrupt(ev'.trap.exception)
            IN  /\ riscv'.mintstatus[X] =
                       IF isInt THEN riscv.pendEnab.level
                       ELSE IF X # getCurrentMode(riscv) THEN 0
                       ELSE riscv.mintstatus[X]
                /\ riscv'.cause[X].pil = riscv.mintstatus[X]
                /\ \A Y \in Modes \ {X} :
                       riscv'.mintstatus[Y] = riscv.mintstatus[Y]
       /\ \A X \in Modes :
            XretExecuted(X) /\ useCLIC(riscv, X)
                => riscv'.mintstatus[X] = riscv.cause[X].pil]_vars

\* mret has brought back the level the handler had interrupted: the hart
\* runs at a non-zero level of Machine mode outside the handler, in CLIC mode
C30_Witness ==
    /\ ev.op = "mret"
    /\ ev.eret = RISCV_MODE_MACHINE
    /\ useCLIC(riscv, RISCV_MODE_MACHINE)
    /\ riscv.cause[RISCV_MODE_MACHINE].Interrupt = 1
    /\ riscv.cause[RISCV_MODE_MACHINE].pil > 0
    /\ riscv.mintstatus[RISCV_MODE_MACHINE]
           = riscv.cause[RISCV_MODE_MACHINE].pil

----------------------------------------------------------------------------
(* PROPERTIES OF DEBUG MODE AND OF THE RETURNS *)

(* C31: a trap return (mret, sret, uret outside Debug Mode, dret in Debug
   Mode) clears mstatus.MPRV when the privileged-architecture version is
   1.12 or later, the mode being left is Machine mode and the new mode is not
   Machine mode; in every other case it leaves mstatus.MPRV as it was. *)
C31_ReturnClearsMPRV ==
    [][ReturnPerformed =>
        riscv'.mstatus.MPRV =
            IF /\ riscv.configInfo.priv_version >= RVPV_1_12
               /\ getCurrentMode(riscv) = RISCV_MODE_MACHINE
               /\ getCurrentMode(riscv') # RISCV_MODE_MACHINE
            THEN 0
            ELSE riscv.mstatus.MPRV]_vars

\* the step brought the hart into Debug Mode from outside it
EnteredDMFromOutside == ev'.enteredDM /\ ~riscv.DM

\* the cause of the Debug Mode entry the step made
EntryCause ==
    CASE ev'.op = "ebreak" -> "EBREAK"
      [] ev'.op = "steptimer" -> "STEP"
      [] ev'.op = "setdm" -> "HALTREQ"
      [] OTHER -> IF riscv.netValue.resethaltreqS THEN "RESETHALTREQ"
                  ELSE "HALTREQ"

(* C32: entering Debug Mode from outside it sets the Debug Mode flag, writes
   dcsr.prv with the mode the hart was in, dcsr.cause with the cause of the
   entry and dpc with the EPC, and switches to Machine mode; with debug_mode
   VECTOR the PC becomes debug_address, and with debug_mode HALT the hart is
   stalled. *)
C32_DebugEntry ==
    [][EnteredDMFromOutside =>
        /\ riscv'.DM
        /\ riscv'.dcsr.prv = getCurrentMode(riscv)
        /\ riscv'.dcsr.cause = EntryCause
        /\ riscv'.dpc = getEPC(riscv)
        /\ getCurrentMode(riscv') = RISCV_MODE_MACHINE
        /\ riscv.configInfo.debug_mode = "VECTOR"
              => riscv'.PC = riscv.configInfo.debug_address
        /\ riscv.configInfo.debug_mode = "HALT"
              => /\ riscv'.DMStall
                 /\ "DEBUG" \in riscv'.disable
                 /\ riscv'.PC = riscv.PC]_vars

\* a halt request stopped the hart in User mode: it is stalled in Debug
\* Mode, in Machine mode, with dcsr.prv naming User mode
C32_Witness ==
    /\ ev.enteredDM
    /\ riscv.DM
    /\ riscv.dcsr.cause = "HALTREQ"
    /\ riscv.dcsr.prv = RISCV_MODE_USER
    /\ getCurrentMode(riscv) = RISCV_MODE_MACHINE
    /\ riscv.DMStall
    /\ riscv.dpc = riscv.PC

\* the step raised an exception with the hart in Debug Mode
ExceptionInDM == riscv.DM /\ (ev'.op = "ecall" \/ ev'.abortRepeat)

(* C33: an exception raised while the hart is in Debug Mode aborts a
   repeating instruction and enters Debug Mode again: the hart stays in Debug
   Mode and in Machine mode, mstatus, xcause, xepc, xtval, mintstatus and
   hart.exception are not modified, no trap is delivered, dcsr and dpc keep
   what the first entry wrote, and with debug_mode VECTOR the PC becomes
   dexc_address. *)
C33_ExceptionInDebugMode ==
    [][ExceptionInDM =>
        /\ ev'.abortRepeat
        /\ ev'.enteredDM
        /\ ~ev'.trap.taken
        /\ ev'.notified = 0
        /\ riscv'.DM
        /\ getCurrentMode(riscv') = RISCV_MODE_MACHINE
        /\ riscv'.mstatus = riscv.mstatus
        /\ riscv'.cause = riscv.cause
        /\ riscv'.epc = riscv.epc
        /\ riscv'.tval = riscv.tval
        /\ riscv'.mintstatus = riscv.mintstatus
        /\ riscv'.exception = riscv.exception
        /\ riscv'.dcsr = riscv.dcsr
        /\ riscv'.dpc = riscv.dpc
        /\ riscv.configInfo.debug_mode = "VECTOR"
              => riscv'.PC = riscv.configInfo.dexc_address]_vars

\* ecall was executed in Debug Mode: the hart is at dexc_address, still in
\* Debug Mode, and dcsr.cause is the cause of the first entry
C33_Witness ==
    /\ ev.op = "ecall"
    /\ ev.abortRepeat
    /\ riscv.DM
    /\ riscv.dcsr.cause = "HALTREQ"
    /\ riscv.PC = riscv.configInfo.dexc_address
    /\ riscv.PC # riscv.configInfo.debug_address

\* the step began and ended in Debug Mode
StayedInDM == riscv.DM /\ riscv'.DM

\* the step left Debug Mode: dret, or the debug module's resume request
LeftDM == riscv.DM /\ ~riscv'.DM

(* C34: entering Debug Mode and leaving it is a round trip: the entry from
   mode m at EPC p records m in dcsr.prv and p in dpc, every event inside
   Debug Mode (an exception, ebreak, a further halt request) leaves dcsr.prv
   and dpc as they are, and leaving Debug Mode clears the Debug Mode flag,
   returns to the mode in dcsr.prv at the address in dpc with its low bits
   masked as for xret, and restarts a hart that debug_mode HALT had
   stalled. *)
C34_DebugRoundTrip ==
    [][/\ EnteredDMFromOutside
            => /\ riscv'.dcsr.prv = getCurrentMode(riscv)
               /\ riscv'.dpc = getEPC(riscv)
       /\ StayedInDM
            => /\ riscv'.dcsr.prv = riscv.dcsr.prv
               /\ riscv'.dpc = riscv.dpc
       /\ LeftDM
            => /\ ev'.op \in {"dret", "setdm"}
               /\ getCurrentMode(riscv') = riscv.dcsr.prv
               /\ riscv'.PC = setPCxRET(riscv, riscv.dpc).PC
               /\ ~riscv'.DMStall
               /\ "DEBUG" \notin riscv'.disable
               /\ ev'.restarted = ("DEBUG" \in riscv.disable)]_vars

\* dret has brought the hart back to the mode below Machine mode and to the
\* address at which the halt request had stopped it
C34_Witness ==
    /\ ev.op = "dret"
    /\ ev.eret # -1
    /\ ~riscv.DM
    /\ riscv.dcsr.cause = "HALTREQ"
    /\ getCurrentMode(riscv) = riscv.dcsr.prv
    /\ getCurrentMode(riscv) # RISCV_MODE_MACHINE
    /\ riscv.PC = riscv.dpc
    /\ riscv.PC # riscv.configInfo.debug_address

\* dcsr.ebreak{m} of the mode the hart is in
EbreakBit(h) ==
    IF getCurrentMode(h) = RISCV_MODE_USER THEN h.dcsr.ebreaku
    ELSE IF getCurrentMode(h) = RISCV_MODE_SUPERVISOR THEN h.dcsr.ebreaks
    ELSE h.dcsr.ebreakm

(* C35: ebreak executed outside Debug Mode in mode m enters Debug Mode with
   cause EBREAK if and only if dcsr.ebreak{m} is set; otherwise it takes a
   Breakpoint exception whose tval is 0 from version 1.12 on and the PC of
   the ebreak on earlier versions; ebreak executed in Debug Mode enters Debug
   Mode again and takes no exception. *)
C35_EbreakDebugOrBreakpoint ==
    [][ev'.op = "ebreak" =>
        IF riscv.DM \/ EbreakBit(riscv) = 1
        THEN /\ ev'.enteredDM
             /\ riscv'.DM
             /\ ~ev'.trap.taken
             /\ ~riscv.DM => riscv'.dcsr.cause = "EBREAK"
        ELSE /\ ~ev'.enteredDM
             /\ ~riscv'.DM
             /\ SingleTrap
             /\ ev'.trap.exception = riscv_E_Breakpoint
             /\ riscv'.exception = riscv_E_Breakpoint
             /\ riscv'.tval[ev'.trap.modeX] =
                    IF riscv.configInfo.priv_version >= RVPV_1_12 THEN 0
                    ELSE getPC(riscv)]_vars

\* ebreak in Supervisor mode with dcsr.ebreaks clear and dcsr.ebreakm set,
\* before version 1.12: the Breakpoint trap holds the PC of the ebreak
C35_Witness ==
    /\ ev.op = "ebreak"
    /\ ev.trap.taken
    /\ ev.trap.modeY = RISCV_MODE_SUPERVISOR
    /\ riscv.dcsr.ebreaks = 0
    /\ riscv.dcsr.ebreakm = 1
    /\ ~riscv.DM
    /\ riscv.configInfo.priv_version < RVPV_1_12
    /\ riscv.tval[ev.trap.modeX] # 0
    /\ riscv.tval[ev.trap.modeX] = riscv.epc[ev.trap.modeX]

\* the step executed mret, sret or uret with the hart in Debug Mode
XretInDM == riscv.DM /\ ev'.op \in {"mret", "sret", "uret"}

(* C40: mret, sret and uret executed in Debug Mode do nothing: the privilege
   mode, the PC, mstatus, mintstatus, the exclusive reservation and pendEnab
   are unchanged, as is every other register of the hart; no ERET observer
   is notified and no re-arbitration is made. *)
C40_XretInDebugModeIsNoOp ==
    [][XretInDM =>
        /\ riscv'.mode = riscv.mode
        /\ riscv'.PC = riscv.PC
        /\ riscv'.mstatus = riscv.mstatus
        /\ riscv'.mintstatus = riscv.mintstatus
        /\ riscv'.exclusiveTag = riscv.exclusiveTag
        /\ riscv'.pendEnab = riscv.pendEnab
        /\ riscv' = riscv
        /\ ev'.eret = -1
        /\ ~ev'.tested
        /\ ~ev'.sched]_vars

\* sret was executed in Debug Mode: the reservation is still held and the
\* hart is in Machine mode, not in the mode mstatus.SPP names
C40_Witness ==
    /\ ev.op = "sret"
    /\ riscv.DM
    /\ ev.eret = -1
    /\ riscv.exclusiveTag
    /\ getCurrentMode(riscv) = RISCV_MODE_MACHINE
    /\ riscv.mstatus.SPP = 1
    /\ riscv.PC = riscv.configInfo.debug_address

\* the step executed an instruction
InstructionExecuted == ev'.op \in InstructionOps

\* the step is the expiry of the step timer
StepTimerExpired == ev'.op = "steptimer"

(* C36: with dcsr.step set and the hart outside Debug Mode, an instruction
   arms the one-instruction step timer, and no other instruction executes
   before the timer expires; when it expires the hart enters Debug Mode with
   cause STEP, dcsr.prv and dpc naming the mode and the address it had
   reached, unless the hart is in Debug Mode by then or dcsr.step has been
   cleared, in which case the expiry changes nothing. *)
C36_SingleStep ==
    [][/\ InstructionExecuted
            => /\ ~riscv.stepTimer
               /\ riscv'.stepTimer
                      = (~riscv.DM /\ riscv.dcsr.step = 1)
       /\ StepTimerExpired
            => /\ riscv.stepTimer
               /\ ~riscv'.stepTimer
               /\ IF ~riscv.DM /\ riscv.dcsr.step = 1
                  THEN /\ ev'.enteredDM
                       /\ riscv'.DM
                       /\ riscv'.dcsr.cause = "STEP"
                       /\ riscv'.dcsr.prv = getCurrentMode(riscv)
                       /\ riscv'.dpc = getEPC(riscv)
                  ELSE /\ ~ev'.enteredDM
                       /\ riscv' = [riscv EXCEPT !.stepTimer = FALSE]]_vars

\* one instruction was stepped after dret: the hart is back in Debug Mode
\* with cause STEP, stopped at the handler the stepped ecall had entered
C36_Witness ==
    /\ ev.op = "steptimer"
    /\ ev.enteredDM
    /\ riscv.DM
    /\ riscv.dcsr.cause = "STEP"
    /\ riscv.dcsr.step = 1
    /\ riscv.exception = riscv_E_EnvironmentCallFromMMode
    /\ riscv.dpc = riscv.tvec[RISCV_MODE_MACHINE].BASE * 4
    /\ riscv.dpc # 0

\* the bits of clicintctl the hart does not implement
Ctl1Bits == Pow2(8 - riscv.configInfo.CLICINTCTLBITS) - 1

\* the last step wrote clicintctl of an interrupt the page gives access to
CtlWritten ==
    /\ ev.op = "clicaccess"
    /\ ev.access.type = "clicintctl"
    /\ accessCLICInterrupt(riscv, ev.access.intIndex, ev.access.pageMode)

(* C37: while only CLIC registers are written, the low 8 - CLICINTCTLBITS
   bits of clicintctl of every interrupt are all one, and after a write of
   clicintctl that the page honours the register holds the implemented bits
   of the byte written above those ones. *)
C37_CtlLowBitsAreOne ==
    /\ \A i \in riscv.configInfo.implemented :
          riscv.clic.intState[i].clicintctl % (Ctl1Bits + 1) = Ctl1Bits
    /\ CtlWritten
         => riscv.clic.intState[ev.access.intIndex].clicintctl
              = ev.access.newValue - (ev.access.newValue % (Ctl1Bits + 1))
                  + Ctl1Bits

\* 128 was written to clicintctl of a hart with three implemented bits: the
\* register holds 128 + 31
C37_Witness ==
    /\ CtlWritten
    /\ riscv.configInfo.CLICINTCTLBITS = 3
    /\ ev.access.newValue = 128
    /\ riscv.clic.intState[ev.access.intIndex].clicintctl = 159

\* clic.sel and pendEnab of leaf h are what arbitration gives with the
\* cliccfg of the root
Arbitrated(root, h) ==
    /\ h.clic.cliccfg = root.clic.cliccfg
    /\ refreshPendingAndEnabled(h).clic.sel = h.clic.sel
    /\ refreshPendingAndEnabled(h).pendEnab = h.pendEnab

(* C38: in a cluster, a write that changes the cliccfg of the root runs the
   interrupt test on every leaf, after which clic.sel and pendEnab of each
   leaf are those arbitration gives with the new nmbits and nlbits; a write
   in the interrupt pages of one leaf leaves cliccfg and every other leaf as
   they were, and tests no other leaf. *)
C38_ClusterWrites ==
    [][/\ (ev'.op = "cliccfg" /\ ev'.changed)
            => \A i \in Harts :
                  /\ riscv'.clic.harts[i].ev.tested
                  /\ Arbitrated(riscv', riscv'.clic.harts[i])
       /\ ev'.op = "clicwrite"
            => /\ riscv'.clic.cliccfg = riscv.clic.cliccfg
               /\ \A i \in Harts \ {ev'.hart} :
                     /\ Strip(riscv'.clic.harts[i])
                          = Strip(riscv.clic.harts[i])
                     /\ ~riscv'.clic.harts[i].ev.tested]_vars

\* nmbits was written to 0 while the S-mode interrupt of the last leaf was
\* pending and the first leaf had none: the last leaf now selects it as an
\* M-mode interrupt
C38_Witness ==
    /\ ev.op = "cliccfg"
    /\ ev.changed
    /\ riscv.clic.cliccfg.nmbits = 0
    /\ riscv.clic.harts[1].clic.sel.id = RV_NO_INT
    /\ riscv.clic.harts[NumHarts].clic.sel.id = IntSeq[1]
    /\ riscv.clic.harts[NumHarts].clic.sel.priv = RISCV_MODE_MACHINE
    /\ attr_mode(riscv.clic.harts[NumHarts].clic.intState[IntSeq[1]]
                     .clicintattr) = RISCV_MODE_SUPERVISOR

\* the step is a rising edge of the nmi input
NmiRises == ev'.op = "nmi" /\ ~riscv.netValue.nmi /\ riscv'.netValue.nmi

(* C39: a rising edge of nmi outside Debug Mode takes the NMI whatever
   deferint is: a halted hart is restarted, the hart is in M mode, mcause is
   ecode_nmi, mepc the address it had reached and PC nmi_address, with
   mstatus and mtval as they were; a rising edge in Debug Mode changes only
   the latched input and dcsr.nmip; no other step takes an NMI, so one that
   was refused in Debug Mode is not taken after Debug Mode is left; and
   dcsr.nmip always equals the nmi input. *)
C39_NmiEdge ==
    [][/\ (NmiRises /\ ~riscv.DM)
            => /\ ev'.nmi
               /\ riscv'.disable \cap RVD_RESTART_NMI = {}
               /\ ev'.restarted = (riscv.disable \cap RVD_RESTART_NMI # {})
               /\ riscv'.mode = RISCV_MODE_MACHINE
               /\ riscv'.cause[RISCV_MODE_MACHINE]
                    = [ZeroCause EXCEPT
                          !.ExceptionCode = riscv.configInfo.ecode_nmi]
               /\ riscv'.epc[RISCV_MODE_MACHINE] = getEPC(riscv)
               /\ riscv'.PC = riscv.configInfo.nmi_address
               /\ riscv'.mstatus = riscv.mstatus
               /\ riscv'.tval = riscv.tval
       /\ (NmiRises /\ riscv.DM)
            => /\ ~ev'.nmi
               /\ riscv' = [riscv EXCEPT !.netValue.nmi = TRUE,
                                         !.dcsr.nmip = 1]
       /\ ev'.nmi => (NmiRises /\ ~riscv.DM)
       /\ riscv'.dcsr.nmip = (IF riscv'.netValue.nmi THEN 1 ELSE 0)]_vars

\* the NMI woke a hart that was waiting for an interrupt in U mode while
\* deferint was high: mcause is the configured code 2, mstatus.MPP still
\* names the mode of an earlier trap
C39_Witness ==
    /\ ev.op = "nmi"
    /\ ev.nmi
    /\ ev.restarted
    /\ riscv.netValue.deferint
    /\ riscv.mode = RISCV_MODE_MACHINE
    /\ riscv.cause[RISCV_MODE_MACHINE].ExceptionCode = 2
    /\ riscv.PC = riscv.configInfo.nmi_address
    /\ riscv.mstatus.MPP = RISCV_MODE_USER
    /\ riscv.mstatus.IE[RISCV_MODE_MACHINE] = 0

====
